---- MODULE Spec2Model ----
(***************************************************************************)
(* Model of the NXP simulated temperature sensor driver                    *)
(* (src/kernel/nxp_simtemp.c): the hrtimer producer cycle, the ring        *)
(* buffer, the blocking/non-blocking read path, and the sysfs              *)
(* configuration writers.                                                  *)
(*                                                                         *)
(* A buffer.lock critical section is one atomic step.  The stats_lock      *)
(* section of the producer is split at its accesses to ramp_counter and    *)
(* ramp_direction, which mode_store writes without stats_lock; the section *)
(* of stats_show is split at its reads, alert_count being written under    *)
(* buffer.lock.  The code between critical sections is split wherever      *)
(* another context can interleave, and every sysfs call has a step for its *)
(* entry, so that a call that waits for a lock is a call in progress.      *)
(***************************************************************************)
EXTENDS Integers, Sequences, FiniteSets, TLC

(***************************************************************************)
(* Program constants                                                       *)
(***************************************************************************)
SIMTEMP_BUFFER_SIZE == 1024
DEFAULT_SAMPLING_MS == 100
DEFAULT_THRESHOLD_MC == 45000
BASE_TEMP_MC == 25000
SAMPLING_MS_MAX == 10000
NSEC_PER_MSEC == 1000000
SAMPLE_SIZE == 16
FLAG_NEW_SAMPLE == 1
FLAG_THRESHOLD_CROSSED == 2
RAMP_PERIOD == 10
RAMP_STEP == 200
NOISE_SPAN == 2000
NOISE_OFFSET == 1000
EINVAL == 22
POLLIN == 1
POLLRDNORM == 64
EAGAIN == 11
ENODEV == 19
EFAULT == 14
ERESTARTSYS == 512
ENODATA == 61
ERANGE == 34

(***************************************************************************)
(* Bounds of the model                                                     *)
(***************************************************************************)
\* number of producer cycles explored from probe
MaxCycles == 4

Readers == {"r1", "r2"}
Writers == {"w1", "w2"}
Modes == {"normal", "noisy", "ramp"}

VARIABLES
    \* struct simtemp_buffer
    buffer,
    \* configuration
    sampling_ms, threshold_mC, mode, period,
    \* statistics
    update_count, alert_count, error_count, last_error,
    \* temperature simulation
    last_temp_mC, ramp_direction, ramp_counter,
    \* struct hrtimer: queued or not, the interval it was armed with, and
    \* the interval of the arming whose expiry runs the callback
    timer_state, timer_interval, fired_interval,
    \* timer callback: position and locals
    cb_pc, cb_temp, cb_sample, cb_gt,
    \* read(2) callers: position, locals, return value, wait queue
    rd_pc, rd_sample, rd_ret, rd_req, task_state, read_wait,
    \* sysfs store callers: position, input, parsed value, return value
    st_pc, st_buf, st_val, st_ret,
    \* config_mutex owner, and the position of nxp_simtemp_remove
    config_mutex, rm_pc,
    \* monotonic clock (ktime_get_ns), counted in readings
    ktime,
    \* history: pops in the order they took effect, samples discarded
    \* without being popped, records handed to callers
    delivered, lost, received,
    \* poll(2) caller: the mask of its last call and the parity of the
    \* number of calls
    poll_ret,
    \* stats_show caller: position and locals
    ss_pc, ss_val,
    \* data->dev->of_node, the device-tree node handed to probe
    of_node,
    \* history kept on request of a specification: the arguments of each
    \* reader's last call of read; the clock reading at the last completed
    \* switch into RAMP, the direction that switch chose, and whether no
    \* RAMP sample has been generated since
    rd_log, ramp_at,
    \* history kept on request: threshold_mC as it was when the producer
    \* cycle in progress (or the last one) started, whether
    \* threshold_mC_store has written since, and the number of samples
    \* pushed with THRESHOLD_CROSSED
    cyc_log,
    \* history kept on request: for every poll call made so far, whether
    \* the ring held a sample at its check and the mask it returned
    poll_log,
    \* TIF_SIGPENDING of each reader's task
    sig_pending,
    \* timer callback: the values of ramp_counter and ramp_direction that the
    \* RAMP branch of nxp_simtemp_generate_temp has loaded
    cb_ramp

bufVars   == <<buffer>>
cfgVars   == <<sampling_ms, threshold_mC, mode, period>>
statVars  == <<update_count, alert_count, error_count, last_error>>
simVars   == <<last_temp_mC, ramp_direction, ramp_counter>>
timerVars == <<timer_state, timer_interval, fired_interval>>
cbVars    == <<cb_pc, cb_temp, cb_sample, cb_gt>>
rdVars    == <<rd_pc, rd_sample, rd_ret, rd_req, task_state, read_wait>>
ctlVars   == <<st_pc, st_buf, st_val, st_ret, config_mutex, rm_pc>>
histVars  == <<ktime, delivered, lost, received>>
obsVars   == <<poll_ret, ss_pc, ss_val>>
bootVars  == <<of_node>>
logVars   == <<rd_log, ramp_at, cyc_log, poll_log>>
sigVars   == <<sig_pending>>
regVars   == <<cb_ramp>>
auxVars   == <<obsVars, bootVars, logVars, sigVars, regVars>>
vars == <<bufVars, cfgVars, statVars, simVars, timerVars, cbVars, rdVars,
          ctlVars, histVars, auxVars>>

\* the RAMP branch has loaded nothing yet
NoRampLoad == [counter |-> 0, direction |-> 0]

\* the locals of stats_show before it has read anything; inst lists the
\* four statistics as they were at each read of the call
NoStats ==
    [updates |-> 0, alerts |-> 0, errors |-> 0, last_error |-> 0,
     inst |-> <<>>]

(***************************************************************************)
(* Ring buffer                                                             *)
(***************************************************************************)
\* a zeroed struct simtemp_sample (devm_kzalloc)
ZeroSample == [timestamp_ns |-> 0, temp_mC |-> 0, flags |-> 0]

\* the buffer as probe leaves it: SIMTEMP_BUFFER_SIZE zeroed slots,
\* head = tail = count = 0.  samples lists the slots written so far; every
\* other slot of samples[SIMTEMP_BUFFER_SIZE] still holds its zeros
EmptyBuffer ==
    [samples |-> [i \in {} |-> ZeroSample],
     head |-> 0, tail |-> 0, count |-> 0]

\* samples[i]
Slot(b, i) ==
    IF i \in DOMAIN b.samples THEN b.samples[i] ELSE ZeroSample

\* RingPush treating the ring as full one slot early
RingPush_FullEarly(b, s) ==
    LET n == SIMTEMP_BUFFER_SIZE
        stored == [b EXCEPT !.samples = (b.head :> s) @@ @,
                            !.head = (b.head + 1) % n]
    IN  IF b.count < n - 1
        THEN [stored EXCEPT !.count = b.count + 1]
        ELSE [stored EXCEPT !.tail = (b.tail + 1) % n]

\* RingPush leaving tail in place when the ring is full
RingPush_TailKept(b, s) ==
    LET n == SIMTEMP_BUFFER_SIZE
        stored == [b EXCEPT !.samples = (b.head :> s) @@ @,
                            !.head = (b.head + 1) % n]
    IN  IF b.count < n
        THEN [stored EXCEPT !.count = b.count + 1]
        ELSE stored

\* RingPush counting the sample that overwrites the oldest one
RingPush_CountsOverwrite(b, s) ==
    LET n == SIMTEMP_BUFFER_SIZE
        stored == [b EXCEPT !.samples = (b.head :> s) @@ @,
                            !.head = (b.head + 1) % n,
                            !.count = b.count + 1]
    IN  IF b.count < n
        THEN stored
        ELSE [stored EXCEPT !.tail = (b.tail + 1) % n]

\* critical section of nxp_simtemp_add_sample
RingPush(b, s) ==
    LET n == SIMTEMP_BUFFER_SIZE
        stored == [b EXCEPT !.samples = (b.head :> s) @@ @,
                            !.head = (b.head + 1) % n]
    IN  IF b.count < n
        THEN [stored EXCEPT !.count = b.count + 1]
        ELSE [stored EXCEPT !.tail = (b.tail + 1) % n]

\* RingPop taking the newest sample instead of the oldest
RingPop_Newest(b) ==
    LET n == SIMTEMP_BUFFER_SIZE
    IN  IF b.count > 0
        THEN [ret |-> 0,
              sample |-> Slot(b, (b.head + n - 1) % n),
              buf |-> [b EXCEPT !.head = (b.head + n - 1) % n,
                                !.count = b.count - 1]]
        ELSE [ret |-> -ENODATA, sample |-> ZeroSample, buf |-> b]

\* RingPop copying the oldest sample without removing it
RingPop_Peek(b) ==
    LET n == SIMTEMP_BUFFER_SIZE
    IN  IF b.count > 0
        THEN [ret |-> 0, sample |-> Slot(b, b.tail), buf |-> b]
        ELSE [ret |-> -ENODATA, sample |-> ZeroSample, buf |-> b]

\* a pop that advances tail before it looks at count
RingPop_EmptyAdvance(b) ==
    IF b.count = 0
    THEN [ret |-> -ENODATA, sample |-> ZeroSample,
          buf |-> [b EXCEPT !.tail = (b.tail + 1) % SIMTEMP_BUFFER_SIZE]]
    ELSE [ret |-> 0, sample |-> Slot(b, b.tail),
          buf |-> [b EXCEPT !.tail = (b.tail + 1) % SIMTEMP_BUFFER_SIZE,
                            !.count = b.count - 1]]

\* critical section of nxp_simtemp_get_sample
RingPop(b) ==
    LET n == SIMTEMP_BUFFER_SIZE
    IN  IF b.count > 0
        THEN [ret |-> 0,
              sample |-> Slot(b, b.tail),
              buf |-> [b EXCEPT !.tail = (b.tail + 1) % n,
                                !.count = b.count - 1]]
        ELSE [ret |-> -ENODATA, sample |-> ZeroSample, buf |-> b]

\* timestamps of the samples a pop can still return, oldest first
LiveSeq(b) ==
    LET n == SIMTEMP_BUFFER_SIZE
    IN  [i \in 1..b.count |-> Slot(b, (b.tail + i - 1) % n).timestamp_ns]

LiveSet(b) == {LiveSeq(b)[i] : i \in 1..b.count}

(***************************************************************************)
(* Fixed-width arithmetic.  A wide value is hi * 2^16 + lo with            *)
(* 0 <= lo < 2^16, so that 32-bit products stay representable.             *)
(***************************************************************************)
LIMB == 65536

Wide(hi, lo) == [hi |-> hi, lo |-> lo]

\* the mathematical product a * b, for 0 <= a < 2^15 and 0 <= b < 2^31
WideMul(a, b) ==
    LET low == a * (b % LIMB)
    IN  Wide(a * (b \div LIMB) + (low \div LIMB), low % LIMB)

\* a * b as the C expression computes it in unsigned int: modulo 2^32
U32Mul(a, b) ==
    LET p == WideMul(a, b)
    IN  Wide(p.hi % LIMB, p.lo)

\* ktime_set(0, nsecs): the unsigned long argument is taken as it is
ktime_set0(nsecs) == nsecs

\* data->period as nxp_simtemp_init_timer and sampling_ms_store compute it
PeriodOf(ms) == ktime_set0(U32Mul(ms, NSEC_PER_MSEC))

\* the strings of the three modes
ModeText(m) ==
    CASE m = "normal" -> <<"n", "o", "r", "m", "a", "l">>
      [] m = "noisy" -> <<"n", "o", "i", "s", "y">>
      [] m = "ramp" -> <<"r", "a", "m", "p">>

\* nxp_simtemp_parse_mode_string
nxp_simtemp_parse_mode_string(str) ==
    IF \E m \in Modes : ModeText(m) = str
    THEN [ret |-> 0, mode |-> CHOOSE m \in Modes : ModeText(m) = str]
    ELSE [ret |-> -EINVAL, mode |-> "normal"]

\* the arguments of a call of read, as kept in rd_log
ReadArgs(count, nonblock) == [count |-> count, nonblock |-> nonblock]

(***************************************************************************)
(* Device-tree overrides: nxp_simtemp_parse_dt.  A u32 cell is a Wide      *)
(* value; a property is absent (has = FALSE) or carries a value.           *)
(***************************************************************************)
Absent(v) == [has |-> FALSE, val |-> v]
Present(v) == [has |-> TRUE, val |-> v]

\* of_node == NULL
NoNode ==
    [present |-> FALSE, sampling |-> Absent(Wide(0, 0)),
     threshold |-> Absent(Wide(0, 0)), mode |-> Absent(<<>>)]

DtNode(sampling, threshold, mode_str) ==
    [present |-> TRUE, sampling |-> sampling, threshold |-> threshold,
     mode |-> mode_str]

\* (__s32)val for a u32 cell
S32OfU32(v) ==
    IF v.hi >= LIMB \div 2 THEN (v.hi - LIMB) * LIMB + v.lo
    ELSE v.hi * LIMB + v.lo

\* the range test of nxp_simtemp_parse_dt without its lower bound
DtSamplingValid_NoLower(v) ==
    v.hi = 0 /\ v.lo <= SAMPLING_MS_MAX

\* val > 0 && val <= 10000 on a u32 cell
DtSamplingValid(v) ==
    (v.hi > 0 \/ v.lo > 0) /\ v.hi = 0 /\ v.lo <= SAMPLING_MS_MAX

\* parse_dt writing the zeroed cell it did not read
nxp_simtemp_parse_dt_Unread(np) ==
    [ret |-> IF np.present THEN 0 ELSE -ENODEV,
     sampling_ms |->
        IF np.present /\ np.sampling.has /\ DtSamplingValid(np.sampling.val)
        THEN np.sampling.val.lo ELSE DEFAULT_SAMPLING_MS,
     threshold_mC |->
        IF np.present /\ np.threshold.has THEN S32OfU32(np.threshold.val)
        ELSE 0,
     mode |->
        IF np.present /\ np.mode.has
           /\ nxp_simtemp_parse_mode_string(np.mode.val).ret = 0
        THEN nxp_simtemp_parse_mode_string(np.mode.val).mode
        ELSE "normal"]

\* nxp_simtemp_parse_dt applied to the defaults set by probe: its return
\* value and the configuration it leaves
nxp_simtemp_parse_dt(np) ==
    IF ~np.present
    THEN [ret |-> -ENODEV, sampling_ms |-> DEFAULT_SAMPLING_MS,
          threshold_mC |-> DEFAULT_THRESHOLD_MC, mode |-> "normal"]
    ELSE [ret |-> 0,
          sampling_ms |->
             IF np.sampling.has /\ DtSamplingValid(np.sampling.val)
             THEN np.sampling.val.lo ELSE DEFAULT_SAMPLING_MS,
          threshold_mC |->
             IF np.threshold.has THEN S32OfU32(np.threshold.val)
             ELSE DEFAULT_THRESHOLD_MC,
          mode |->
             IF np.mode.has
                /\ nxp_simtemp_parse_mode_string(np.mode.val).ret = 0
             THEN nxp_simtemp_parse_mode_string(np.mode.val).mode
             ELSE "normal"]

(***************************************************************************)
(* Initial state: nxp_simtemp_probe on device-tree node np, timer started  *)
(* by nxp_simtemp_init_timer.                                              *)
(***************************************************************************)
Probe(np) ==
    LET dt == nxp_simtemp_parse_dt(np)
    IN
    /\ of_node = np
    /\ buffer = EmptyBuffer
    /\ sampling_ms = dt.sampling_ms
    /\ threshold_mC = dt.threshold_mC
    /\ mode = dt.mode
    /\ period = PeriodOf(dt.sampling_ms)
    /\ update_count = 0 /\ alert_count = 0
    /\ error_count = 0 /\ last_error = 0
    /\ last_temp_mC = BASE_TEMP_MC
    /\ ramp_direction = 1
    /\ ramp_counter = 0
    /\ timer_state = "enqueued"
    /\ timer_interval = PeriodOf(dt.sampling_ms)
    /\ fired_interval = Wide(0, 0)
    /\ st_pc = [w \in Writers |-> "idle"]
    /\ st_buf = [w \in Writers |-> <<>>]
    /\ st_val = [w \in Writers |-> 0]
    /\ st_ret = [w \in Writers |-> 0]
    /\ config_mutex = "free"
    /\ rm_pc = "live"
    /\ cb_pc = "idle" /\ cb_temp = 0 /\ cb_sample = ZeroSample
    /\ cb_gt = FALSE
    /\ rd_pc = [r \in Readers |-> "idle"]
    /\ rd_sample = [r \in Readers |-> ZeroSample]
    /\ rd_ret = [r \in Readers |-> 0]
    /\ rd_req = [r \in Readers |->
                   [nonblock |-> FALSE, buf_ok |-> TRUE, queued |-> FALSE,
                    intr |-> FALSE]]
    /\ task_state = [r \in Readers |-> "RUNNING"]
    /\ read_wait = {}
    /\ poll_ret = [mask |-> 0, seq |-> 0]
    /\ sig_pending = [r \in Readers |-> FALSE]
    /\ cb_ramp = NoRampLoad
    /\ ss_pc = "idle"
    /\ ss_val = NoStats
    /\ ktime = 0
    /\ delivered = <<>>
    /\ lost = {}
    /\ received = <<>>

\* the history of poll calls, kept or not
PollHistory(kept) == poll_log = [on |-> kept, seen |-> {}]

\* the histories rd_log, ramp_at and cyc_log, kept or not
CallHistories(kept) ==
    /\ rd_log = [on |-> kept,
                 call |-> [r \in Readers |-> ReadArgs(0, FALSE)]]
    /\ ramp_at = [on |-> kept, at |-> -1, first |-> FALSE, dir |-> 0]
    /\ cyc_log = [on |-> kept, threshold |-> 0, stored |-> FALSE,
                  flagged |-> 0]

\* the histories of calls and cycles kept or not, that of polls not kept
Histories(kept) == CallHistories(kept) /\ PollHistory(FALSE)

\* probe without a device-tree node
Init == Probe(NoNode) /\ Histories(FALSE)

(***************************************************************************)
(* Producer: hrtimer expiry and nxp_simtemp_timer_callback                 *)
(***************************************************************************)
\* values get_random_bytes may deliver
RandomVals == {0, 1000, 1999, 2000, 123457999}

\* the ramp with the step of 100 mC
RampStep_HalfStep(counter, direction) ==
    LET c1 == counter + 1
        flip == c1 > RAMP_PERIOD
        c2 == IF flip THEN 0 ELSE c1
        d2 == IF flip THEN direction * (-1) ELSE direction
    IN  [counter |-> c2, direction |-> d2,
         temp |-> BASE_TEMP_MC + (c2 * d2 * (RAMP_STEP \div 2))]

\* the conversion of a signed int to an unsigned operand, modulo 2^32
U32OfS32(n) ==
    IF n < 0
    THEN Wide(LIMB - 1 - ((0 - n - 1) \div LIMB),
              LIMB - 1 - ((0 - n - 1) % LIMB))
    ELSE Wide(n \div LIMB, n % LIMB)

\* a * w modulo 2^32, for 0 <= a < 2^15
U32MulSmall(a, w) ==
    LET low == a * w.lo
    IN  Wide((a * w.hi + (low \div LIMB)) % LIMB, low % LIMB)

\* x + y modulo 2^32
U32Add(x, y) ==
    LET low == x.lo + y.lo
    IN  Wide((x.hi + y.hi + (low \div LIMB)) % LIMB, low % LIMB)

\* base_temp_mC + (ramp_counter * ramp_direction * 200): the operands are
\* converted to unsigned long, and the assignment to __s32 keeps the low
\* 32 bits, so the value is the one computed modulo 2^32
RampTemp(counter, direction) ==
    S32OfU32(U32Add(U32OfS32(BASE_TEMP_MC),
                    U32MulSmall(RAMP_STEP,
                                U32MulSmall(counter, U32OfS32(direction)))))

\* RAMP branch of nxp_simtemp_generate_temp: new counter, direction, value
RampStep(counter, direction) ==
    LET c1 == counter + 1
        flip == c1 > RAMP_PERIOD
        c2 == IF flip THEN 0 ELSE c1
        d2 == IF flip THEN direction * (-1) ELSE direction
    IN  [counter |-> c2, direction |-> d2, temp |-> RampTemp(c2, d2)]

\* the noise taken modulo 2001
NoisyTemp_Wide(random_val) ==
    BASE_TEMP_MC + (random_val % (NOISE_SPAN + 1)) - NOISE_OFFSET

\* NOISY branch of nxp_simtemp_generate_temp
NoisyTemp(random_val) ==
    BASE_TEMP_MC + (random_val % NOISE_SPAN) - NOISE_OFFSET

\* the hrtimer core dequeues an expired timer and runs its callback;
\* cap bounds the number of cycles a specification explores
Fire(cap) ==
    /\ timer_state = "enqueued"
    /\ cb_pc = "idle"
    /\ update_count < cap
    /\ timer_state' = "inactive"
    /\ fired_interval' = timer_interval
    /\ cb_pc' = "generate"
    /\ cyc_log' = IF cyc_log.on
                  THEN [cyc_log EXCEPT !.threshold = threshold_mC,
                                       !.stored = FALSE]
                  ELSE cyc_log
    /\ UNCHANGED <<timer_interval, cb_temp, cb_sample, cb_gt>>
    /\ UNCHANGED <<bufVars, cfgVars, statVars, simVars, rdVars, histVars>>
    /\ UNCHANGED ctlVars
    /\ UNCHANGED <<obsVars, bootVars, regVars, sigVars, rd_log, ramp_at,
                   poll_log>>

\* a producer that does not take stats_lock
StatsLockFree_NotTaken == TRUE

\* stats_lock is held by stats_show from spin_lock_irqsave to
\* spin_unlock_irqrestore
StatsLockFree == ss_pc \notin {"alerts", "errors"}

\* a critical section that produces the temperature and counts nothing
Generate_Uncounted ==
    /\ cb_pc = "generate"
    /\ StatsLockFree
    /\ \/ /\ mode = "normal"
          /\ cb_temp' = BASE_TEMP_MC
          /\ cb_pc' = "compare_new"
       \/ /\ mode = "noisy"
          /\ \E random_val \in RandomVals :
                cb_temp' = NoisyTemp(random_val)
          /\ cb_pc' = "compare_new"
       \/ /\ mode = "ramp"
          /\ cb_pc' = "ramp_load"
          /\ UNCHANGED cb_temp
    /\ UNCHANGED <<update_count, alert_count, error_count, last_error>>
    /\ UNCHANGED <<cb_sample, cb_gt>>
    /\ UNCHANGED <<bufVars, cfgVars, simVars, timerVars, rdVars, histVars>>
    /\ UNCHANGED ctlVars
    /\ UNCHANGED auxVars

(***************************************************************************)
(* nxp_simtemp_generate_temp, one stats_lock critical section.  mode_store *)
(* writes ramp_counter and ramp_direction under config_mutex only, so      *)
(* these writes can land inside the section: between its read of mode, its *)
(* load of ramp_counter, its load of ramp_direction and its stores.        *)
(***************************************************************************)
\* spin_lock_irqsave(&data->stats_lock); switch (data->mode): the NORMAL
\* and NOISY branches to the end of the section, the RAMP branch entered
Generate ==
    /\ cb_pc = "generate"
    /\ StatsLockFree
    /\ \/ /\ mode = "normal"
          /\ cb_temp' = BASE_TEMP_MC
          /\ update_count' = update_count + 1
          /\ cb_pc' = "compare_new"
       \/ /\ mode = "noisy"
          /\ \E random_val \in RandomVals :
                cb_temp' = NoisyTemp(random_val)
          /\ update_count' = update_count + 1
          /\ cb_pc' = "compare_new"
       \/ /\ mode = "ramp"
          /\ cb_pc' = "ramp_load"
          /\ UNCHANGED <<cb_temp, update_count>>
    /\ UNCHANGED <<alert_count, error_count, last_error>>
    /\ UNCHANGED <<cb_sample, cb_gt>>
    /\ UNCHANGED <<bufVars, cfgVars, simVars, timerVars, rdVars, histVars>>
    /\ UNCHANGED ctlVars
    /\ UNCHANGED auxVars

\* the RAMP branch: data->ramp_counter is loaded
RampLoadCounter ==
    /\ cb_pc = "ramp_load"
    /\ cb_ramp' = [cb_ramp EXCEPT !.counter = ramp_counter]
    /\ cb_pc' = "ramp_direction"
    /\ UNCHANGED <<cb_temp, cb_sample, cb_gt>>
    /\ UNCHANGED <<bufVars, cfgVars, statVars, simVars, timerVars, rdVars,
                   histVars>>
    /\ UNCHANGED ctlVars
    /\ UNCHANGED <<obsVars, bootVars, logVars, sigVars>>

\* the RAMP branch: data->ramp_direction is loaded, after ramp_counter
RampLoadDirection ==
    /\ cb_pc = "ramp_direction"
    /\ cb_ramp' = [cb_ramp EXCEPT !.direction = ramp_direction]
    /\ cb_pc' = "ramp_store"
    /\ UNCHANGED <<cb_temp, cb_sample, cb_gt>>
    /\ UNCHANGED <<bufVars, cfgVars, statVars, simVars, timerVars, rdVars,
                   histVars>>
    /\ UNCHANGED ctlVars
    /\ UNCHANGED <<obsVars, bootVars, logVars, sigVars>>

\* a RAMP branch that ends without counting the cycle
RampStore_Uncounted ==
    /\ cb_pc = "ramp_store"
    /\ LET r == RampStep(cb_ramp.counter, cb_ramp.direction)
       IN  /\ ramp_counter' = r.counter
           /\ ramp_direction' = IF r.direction # cb_ramp.direction
                                THEN r.direction ELSE ramp_direction
           /\ cb_temp' = r.temp
    /\ ramp_at' = IF ramp_at.on
                  THEN [ramp_at EXCEPT !.first = FALSE] ELSE ramp_at
    /\ cb_pc' = "compare_new"
    /\ UNCHANGED <<update_count, alert_count, error_count, last_error>>
    /\ UNCHANGED <<last_temp_mC, cb_sample, cb_gt>>
    /\ UNCHANGED <<bufVars, cfgVars, timerVars, rdVars, histVars>>
    /\ UNCHANGED ctlVars
    /\ UNCHANGED <<obsVars, bootVars, regVars, sigVars, rd_log, cyc_log,
                   poll_log>>

\* the RAMP branch: the counter is stored, the direction is stored if it
\* was reversed, the temperature is computed from the values in hand;
\* update_count++; spin_unlock_irqrestore
RampStore ==
    /\ cb_pc = "ramp_store"
    /\ LET r == RampStep(cb_ramp.counter, cb_ramp.direction)
       IN  /\ ramp_counter' = r.counter
           /\ ramp_direction' = IF r.direction # cb_ramp.direction
                                THEN r.direction ELSE ramp_direction
           /\ cb_temp' = r.temp
    /\ update_count' = update_count + 1
    /\ ramp_at' = IF ramp_at.on
                  THEN [ramp_at EXCEPT !.first = FALSE] ELSE ramp_at
    /\ cb_pc' = "compare_new"
    /\ UNCHANGED <<alert_count, error_count, last_error, last_temp_mC>>
    /\ UNCHANGED <<cb_sample, cb_gt>>
    /\ UNCHANGED <<bufVars, cfgVars, timerVars, rdVars, histVars>>
    /\ UNCHANGED ctlVars
    /\ UNCHANGED <<obsVars, bootVars, regVars, sigVars, rd_log, cyc_log,
                   poll_log>>

\* the first operand evaluated under config_mutex
CompareNew_UnderMutex ==
    /\ cb_pc = "compare_new"
    /\ config_mutex = "free"
    /\ ktime' = ktime + 1
    /\ cb_sample' = [timestamp_ns |-> ktime + 1, temp_mC |-> cb_temp,
                     flags |-> FLAG_NEW_SAMPLE]
    /\ cb_gt' = (cb_temp > threshold_mC)
    /\ cb_pc' = "compare_last"
    /\ UNCHANGED <<cb_temp, delivered, lost, received>>
    /\ UNCHANGED <<bufVars, cfgVars, statVars, simVars, timerVars, rdVars>>
    /\ UNCHANGED ctlVars
    /\ UNCHANGED auxVars

\* nxp_simtemp_add_sample: sample prepared, first operand of the crossing
\* test evaluated (first read of threshold_mC, no lock held)
CompareNew ==
    /\ cb_pc = "compare_new"
    /\ ktime' = ktime + 1
    /\ cb_sample' = [timestamp_ns |-> ktime + 1, temp_mC |-> cb_temp,
                     flags |-> FLAG_NEW_SAMPLE]
    /\ cb_gt' = (cb_temp > threshold_mC)
    /\ cb_pc' = "compare_last"
    /\ UNCHANGED <<cb_temp, delivered, lost, received>>
    /\ UNCHANGED <<bufVars, cfgVars, statVars, simVars, timerVars, rdVars>>
    /\ UNCHANGED ctlVars
    /\ UNCHANGED auxVars

\* the crossing test of nxp_simtemp_add_sample, given the two operands
Crossed(new_gt, last_gt) == new_gt # last_gt

\* the second operand evaluated under config_mutex
CompareLast_UnderMutex ==
    /\ cb_pc = "compare_last"
    /\ config_mutex = "free"
    /\ cb_sample' =
          IF Crossed(cb_gt, last_temp_mC > threshold_mC)
          THEN [cb_sample EXCEPT
                   !.flags = FLAG_NEW_SAMPLE + FLAG_THRESHOLD_CROSSED]
          ELSE cb_sample
    /\ last_temp_mC' = cb_temp
    /\ cb_pc' = "push"
    /\ UNCHANGED <<ramp_direction, ramp_counter, cb_temp, cb_gt>>
    /\ UNCHANGED <<bufVars, cfgVars, statVars, timerVars, rdVars, histVars>>
    /\ UNCHANGED ctlVars
    /\ UNCHANGED auxVars

\* nxp_simtemp_add_sample: second operand (second read of threshold_mC),
\* flag set on a crossing, last_temp_mC updated
CompareLast ==
    /\ cb_pc = "compare_last"
    /\ cb_sample' =
          IF Crossed(cb_gt, last_temp_mC > threshold_mC)
          THEN [cb_sample EXCEPT
                   !.flags = FLAG_NEW_SAMPLE + FLAG_THRESHOLD_CROSSED]
          ELSE cb_sample
    /\ last_temp_mC' = cb_temp
    /\ cb_pc' = "push"
    /\ UNCHANGED <<ramp_direction, ramp_counter, cb_temp, cb_gt>>
    /\ UNCHANGED <<bufVars, cfgVars, statVars, timerVars, rdVars, histVars>>
    /\ UNCHANGED ctlVars
    /\ UNCHANGED auxVars

\* local threshold_crossed of nxp_simtemp_add_sample
ThresholdCrossed(s) == s.flags \div FLAG_THRESHOLD_CROSSED % 2 = 1

\* samples that left the ring in a step without being handed to a popper
Discarded(old, new, taken, by) ==
    {[timestamp_ns |-> t, count |-> old.count, by |-> by] :
        t \in (LiveSet(old) \ LiveSet(new)) \ taken}

\* the number of flagged samples pushed, as kept in cyc_log
CountFlagged(s) ==
    IF cyc_log.on /\ ThresholdCrossed(s)
    THEN [cyc_log EXCEPT !.flagged = @ + 1]
    ELSE cyc_log

\* the critical section counting an alert for every sample
Push_CountsAll ==
    /\ cb_pc = "push"
    /\ buffer' = RingPush(buffer, cb_sample)
    /\ alert_count' = alert_count + 1
    /\ lost' = lost \cup Discarded(buffer, buffer', {}, "push")
    /\ cyc_log' = CountFlagged(cb_sample)
    /\ cb_pc' = "wake"
    /\ UNCHANGED <<update_count, error_count, last_error>>
    /\ UNCHANGED <<cb_temp, cb_sample, cb_gt, ktime, delivered, received>>
    /\ UNCHANGED <<cfgVars, simVars, timerVars, rdVars>>
    /\ UNCHANGED ctlVars
    /\ UNCHANGED <<obsVars, bootVars, regVars, sigVars, rd_log, ramp_at,
                   poll_log>>

\* nxp_simtemp_add_sample: the buffer.lock critical section
Push ==
    /\ cb_pc = "push"
    /\ buffer' = RingPush(buffer, cb_sample)
    /\ alert_count' = IF ThresholdCrossed(cb_sample)
                      THEN alert_count + 1 ELSE alert_count
    /\ lost' = lost \cup Discarded(buffer, buffer', {}, "push")
    /\ cyc_log' = CountFlagged(cb_sample)
    /\ cb_pc' = "wake"
    /\ UNCHANGED <<update_count, error_count, last_error>>
    /\ UNCHANGED <<cb_temp, cb_sample, cb_gt, ktime, delivered, received>>
    /\ UNCHANGED <<cfgVars, simVars, timerVars, rdVars>>
    /\ UNCHANGED ctlVars
    /\ UNCHANGED <<obsVars, bootVars, regVars, sigVars, rd_log, ramp_at,
                   poll_log>>

\* the wake-up reaching no sleeper of read_wait
Wake_NoReader ==
    /\ cb_pc = "wake"
    /\ cb_pc' = "forward"
    /\ UNCHANGED <<cb_temp, cb_sample, cb_gt>>
    /\ UNCHANGED <<bufVars, cfgVars, statVars, simVars, timerVars, rdVars,
                   ctlVars, histVars>>
    /\ UNCHANGED auxVars

\* wake_up_interruptible(&data->read_wait): every queued sleeper is made
\* runnable and leaves the queue (autoremove_wake_function)
Wake ==
    /\ cb_pc = "wake"
    /\ LET woken == {r \in read_wait : task_state[r] = "INTERRUPTIBLE"}
       IN  /\ task_state' = [r \in Readers |->
                               IF r \in woken THEN "RUNNING"
                               ELSE task_state[r]]
           /\ read_wait' = read_wait \ woken
    /\ cb_pc' = "forward"
    /\ UNCHANGED <<rd_pc, rd_sample, rd_ret, rd_req>>
    /\ UNCHANGED <<cb_temp, cb_sample, cb_gt>>
    /\ UNCHANGED <<bufVars, cfgVars, statVars, simVars, timerVars, histVars>>
    /\ UNCHANGED ctlVars
    /\ UNCHANGED auxVars

\* the callback returning HRTIMER_NORESTART
Forward_NoRestart ==
    /\ cb_pc = "forward"
    /\ timer_interval' = period
    /\ timer_state' = "inactive"
    /\ fired_interval' = Wide(0, 0)
    /\ cb_pc' = "idle"
    /\ cb_temp' = 0 /\ cb_sample' = ZeroSample /\ cb_gt' = FALSE
    /\ UNCHANGED <<bufVars, cfgVars, statVars, simVars, rdVars, histVars>>
    /\ UNCHANGED ctlVars
    /\ UNCHANGED auxVars

\* hrtimer_forward_now(timer, data->period); return HRTIMER_RESTART
Forward ==
    /\ cb_pc = "forward"
    /\ timer_interval' = period
    /\ timer_state' = "enqueued"
    /\ fired_interval' = Wide(0, 0)
    /\ cb_pc' = "idle"
    /\ cb_temp' = 0 /\ cb_sample' = ZeroSample /\ cb_gt' = FALSE
    /\ UNCHANGED <<bufVars, cfgVars, statVars, simVars, rdVars, histVars>>
    /\ UNCHANGED ctlVars
    /\ UNCHANGED auxVars

Callback ==
    \/ Generate \/ RampLoadCounter \/ RampLoadDirection \/ RampStore
    \/ CompareNew \/ CompareLast \/ Push \/ Wake \/ Forward

(***************************************************************************)
(* Consumers: nxp_simtemp_read                                             *)
(***************************************************************************)
\* sizes a caller may request
ReadSizes == {SAMPLE_SIZE - 1, SAMPLE_SIZE, 4 * SAMPLE_SIZE}

\* a critical section that a caller asleep in schedule() still occupies
GetSampleBy_KeptBySleeper(r) ==
    LET res == RingPop(buffer)
    IN  /\ \A q \in Readers \ {r} :
              ~(rd_pc[q] = "schedule" /\ task_state[q] = "INTERRUPTIBLE")
        /\ buffer' = res.buf
        /\ rd_sample' = IF res.ret = 0
                        THEN [rd_sample EXCEPT ![r] = res.sample]
                        ELSE rd_sample
        /\ delivered' = IF res.ret = 0
                        THEN Append(delivered, res.sample.timestamp_ns)
                        ELSE delivered
        /\ lost' = lost \cup
              Discarded(buffer, res.buf,
                        IF res.ret = 0 THEN {res.sample.timestamp_ns} ELSE {},
                        "pop")

\* nxp_simtemp_get_sample called by reader r: the critical section, its
\* result in rd_sample, and the history of the pop
GetSampleBy(r) ==
    LET res == RingPop(buffer)
    IN  /\ buffer' = res.buf
        /\ rd_sample' = IF res.ret = 0
                        THEN [rd_sample EXCEPT ![r] = res.sample]
                        ELSE rd_sample
        /\ delivered' = IF res.ret = 0
                        THEN Append(delivered, res.sample.timestamp_ns)
                        ELSE delivered
        /\ lost' = lost \cup
              Discarded(buffer, res.buf,
                        IF res.ret = 0 THEN {res.sample.timestamp_ns} ELSE {},
                        "pop")

\* what a call in progress remembers: O_NONBLOCK in file->f_flags, whether
\* buf is writable user memory, whether the call has been queued on
\* read_wait, and whether prepare_to_wait_event found a signal pending
Request(nonblock, buf_ok) ==
    [nonblock |-> nonblock, buf_ok |-> buf_ok, queued |-> FALSE,
     intr |-> FALSE]

NoRequest == Request(FALSE, TRUE)

\* the size test with the record size off by one
TooSmall_OffByOne(count) == count < SAMPLE_SIZE - 1

\* count < sizeof(sample)
TooSmall(count) == count < SAMPLE_SIZE

\* nxp_simtemp_read up to its first nxp_simtemp_get_sample
ReadCall(r) ==
    /\ rd_pc[r] = "idle"
    /\ \E count \in ReadSizes, nonblock \in BOOLEAN, buf_ok \in BOOLEAN :
        /\ rd_log' = IF rd_log.on
                     THEN [rd_log EXCEPT !.call[r] = ReadArgs(count, nonblock)]
                     ELSE rd_log
        /\
          IF TooSmall(count)
          THEN /\ rd_ret' = [rd_ret EXCEPT ![r] = -EINVAL]
               /\ UNCHANGED <<rd_pc, rd_sample, rd_req, buffer, delivered,
                              lost>>
          ELSE /\ GetSampleBy(r)
               /\ IF RingPop(buffer).ret = 0
                  THEN /\ rd_pc' = [rd_pc EXCEPT ![r] = "copy"]
                       /\ rd_ret' = [rd_ret EXCEPT ![r] = 0]
                       /\ rd_req' = [rd_req EXCEPT
                                        ![r] = Request(nonblock, buf_ok)]
                  ELSE IF nonblock
                  THEN /\ rd_ret' = [rd_ret EXCEPT ![r] = -EAGAIN]
                       /\ UNCHANGED <<rd_pc, rd_req>>
                  ELSE /\ rd_pc' = [rd_pc EXCEPT ![r] = "wait_cond"]
                       /\ rd_ret' = [rd_ret EXCEPT ![r] = 0]
                       /\ rd_req' = [rd_req EXCEPT
                                        ![r] = Request(nonblock, buf_ok)]
    /\ UNCHANGED <<task_state, read_wait, ktime, received>>
    /\ UNCHANGED <<cfgVars, statVars, simVars, timerVars, cbVars>>
    /\ UNCHANGED ctlVars
    /\ UNCHANGED <<obsVars, bootVars, regVars, ramp_at, cyc_log, sigVars,
                   poll_log>>

\* wait_event_interruptible: the condition is evaluated once before the
\* caller is queued
WaitCond(r) ==
    /\ rd_pc[r] = "wait_cond"
    /\ GetSampleBy(r)
    /\ rd_pc' = [rd_pc EXCEPT
                    ![r] = IF RingPop(buffer).ret = 0 THEN "copy"
                           ELSE "prepare"]
    /\ UNCHANGED <<rd_ret, rd_req, task_state, read_wait, ktime, received>>
    /\ UNCHANGED <<cfgVars, statVars, simVars, timerVars, cbVars>>
    /\ UNCHANGED ctlVars
    /\ UNCHANGED auxVars

\* prepare_to_wait_event: with a signal pending the caller is taken off
\* the queue and the wait is marked interrupted; otherwise the caller is
\* queued and marked sleeping
Prepare(r) ==
    /\ rd_pc[r] = "prepare"
    /\ IF sig_pending[r]
       THEN /\ read_wait' = read_wait \ {r}
            /\ rd_req' = [rd_req EXCEPT ![r].intr = TRUE]
            /\ UNCHANGED task_state
       ELSE /\ read_wait' = read_wait \cup {r}
            /\ task_state' = [task_state EXCEPT ![r] = "INTERRUPTIBLE"]
            /\ rd_req' = [rd_req EXCEPT ![r].queued = TRUE]
    /\ rd_pc' = [rd_pc EXCEPT ![r] = "check"]
    /\ UNCHANGED <<rd_sample, rd_ret>>
    /\ UNCHANGED <<bufVars, cfgVars, statVars, simVars, timerVars, cbVars,
                   histVars>>
    /\ UNCHANGED ctlVars
    /\ UNCHANGED auxVars

\* the wait loop giving up on a signal before it looks at the condition
WaitOutcome_SignalFirst(popped, intr) ==
    IF intr THEN "interrupted" ELSE IF popped THEN "copy" ELSE "schedule"

\* ___wait_event after prepare_to_wait_event: if (condition) break; then
\* if the wait was interrupted, leave with -ERESTARTSYS; else schedule()
WaitOutcome(popped, intr) ==
    IF popped THEN "copy" ELSE IF intr THEN "interrupted" ELSE "schedule"

\* the condition re-evaluated after prepare_to_wait_event: on success the
\* loop is left for finish_wait; on a signal nxp_simtemp_read returns
\* -ERESTARTSYS (the signal is then handled on the way back to user mode)
Check(r) ==
    /\ rd_pc[r] = "check"
    /\ GetSampleBy(r)
    /\ LET out == WaitOutcome(RingPop(buffer).ret = 0, rd_req[r].intr)
       IN  CASE out = "copy" ->
                  /\ rd_pc' = [rd_pc EXCEPT ![r] = "finish"]
                  /\ UNCHANGED <<task_state, read_wait, rd_ret, rd_req,
                                 sig_pending>>
             [] out = "interrupted" ->
                  /\ rd_pc' = [rd_pc EXCEPT ![r] = "idle"]
                  /\ rd_ret' = [rd_ret EXCEPT ![r] = -ERESTARTSYS]
                  /\ rd_req' = [rd_req EXCEPT ![r] = NoRequest]
                  /\ sig_pending' = [sig_pending EXCEPT ![r] = FALSE]
                  /\ UNCHANGED <<task_state, read_wait>>
             [] out = "schedule" ->
                  /\ rd_pc' = [rd_pc EXCEPT ![r] = "schedule"]
                  /\ UNCHANGED <<task_state, read_wait, rd_ret, rd_req,
                                 sig_pending>>
    /\ UNCHANGED <<ktime, received>>
    /\ UNCHANGED <<cfgVars, statVars, simVars, timerVars, cbVars>>
    /\ UNCHANGED ctlVars
    /\ UNCHANGED <<obsVars, bootVars, regVars, logVars>>

\* finish_wait: the caller is runnable and off the queue
FinishWait(r) ==
    /\ rd_pc[r] = "finish"
    /\ task_state' = [task_state EXCEPT ![r] = "RUNNING"]
    /\ read_wait' = read_wait \ {r}
    /\ rd_pc' = [rd_pc EXCEPT ![r] = "copy"]
    /\ UNCHANGED <<rd_sample, rd_ret, rd_req>>
    /\ UNCHANGED <<bufVars, cfgVars, statVars, simVars, timerVars, cbVars,
                   histVars>>
    /\ UNCHANGED ctlVars
    /\ UNCHANGED auxVars

\* schedule(): returns once the task is runnable again
Schedule(r) ==
    /\ rd_pc[r] = "schedule"
    /\ task_state[r] = "RUNNING"
    /\ rd_pc' = [rd_pc EXCEPT ![r] = "prepare"]
    /\ UNCHANGED <<rd_sample, rd_ret, rd_req, task_state, read_wait>>
    /\ UNCHANGED <<bufVars, cfgVars, statVars, simVars, timerVars, cbVars,
                   histVars>>
    /\ UNCHANGED ctlVars
    /\ UNCHANGED auxVars

\* a read that records a failed copy_to_user in the error statistics
Copy_CountsFault(r) ==
    /\ rd_pc[r] = "copy"
    /\ IF rd_req[r].buf_ok
       THEN /\ rd_ret' = [rd_ret EXCEPT ![r] = SAMPLE_SIZE]
            /\ received' = Append(received, rd_sample[r].timestamp_ns)
            /\ UNCHANGED <<error_count, last_error>>
       ELSE /\ rd_ret' = [rd_ret EXCEPT ![r] = -EFAULT]
            /\ received' = received
            /\ error_count' = error_count + 1
            /\ last_error' = -EFAULT
    /\ rd_pc' = [rd_pc EXCEPT ![r] = "idle"]
    /\ rd_sample' = [rd_sample EXCEPT ![r] = ZeroSample]
    /\ rd_req' = [rd_req EXCEPT ![r] = NoRequest]
    /\ sig_pending' = [sig_pending EXCEPT ![r] = FALSE]
    /\ UNCHANGED <<task_state, read_wait>>
    /\ UNCHANGED <<ktime, delivered, lost>>
    /\ UNCHANGED <<update_count, alert_count>>
    /\ UNCHANGED <<bufVars, cfgVars, simVars, timerVars, cbVars>>
    /\ UNCHANGED ctlVars
    /\ UNCHANGED <<obsVars, bootVars, regVars, logVars>>

\* copy_to_user and return; a pending signal is handled on the way back to
\* user mode
Copy(r) ==
    /\ rd_pc[r] = "copy"
    /\ IF rd_req[r].buf_ok
       THEN /\ rd_ret' = [rd_ret EXCEPT ![r] = SAMPLE_SIZE]
            /\ received' = Append(received, rd_sample[r].timestamp_ns)
       ELSE /\ rd_ret' = [rd_ret EXCEPT ![r] = -EFAULT]
            /\ received' = received
    /\ rd_pc' = [rd_pc EXCEPT ![r] = "idle"]
    /\ rd_sample' = [rd_sample EXCEPT ![r] = ZeroSample]
    /\ rd_req' = [rd_req EXCEPT ![r] = NoRequest]
    /\ sig_pending' = [sig_pending EXCEPT ![r] = FALSE]
    /\ UNCHANGED <<task_state, read_wait>>
    /\ UNCHANGED <<ktime, delivered, lost>>
    /\ UNCHANGED <<bufVars, cfgVars, statVars, simVars, timerVars, cbVars>>
    /\ UNCHANGED ctlVars
    /\ UNCHANGED <<obsVars, bootVars, regVars, logVars>>

\* a signal sent to reader r while it is inside nxp_simtemp_read:
\* TIF_SIGPENDING is set and signal_wake_up makes a task sleeping in
\* TASK_INTERRUPTIBLE runnable, leaving it on the wait queue
Signal(r) ==
    /\ rd_pc[r] # "idle"
    /\ ~sig_pending[r]
    /\ sig_pending' = [sig_pending EXCEPT ![r] = TRUE]
    /\ task_state' = [task_state EXCEPT ![r] = "RUNNING"]
    /\ UNCHANGED <<rd_pc, rd_sample, rd_ret, rd_req, read_wait>>
    /\ UNCHANGED <<bufVars, cfgVars, statVars, simVars, timerVars, cbVars,
                   histVars>>
    /\ UNCHANGED ctlVars
    /\ UNCHANGED <<obsVars, bootVars, regVars, logVars>>

Read(r) == ReadCall(r) \/ WaitCond(r) \/ Prepare(r) \/ Check(r)
              \/ FinishWait(r) \/ Schedule(r) \/ Copy(r)

(***************************************************************************)
(* nxp_simtemp_poll and stats_show                                         *)
(***************************************************************************)
\* readiness taken from the positions instead of count
PollMask_HeadTail(b) ==
    IF b.head # b.tail THEN POLLIN + POLLRDNORM ELSE 0

\* the mask computed in the buffer.lock critical section of nxp_simtemp_poll
PollMask(b) ==
    IF b.count > 0 THEN POLLIN + POLLRDNORM ELSE 0

\* nxp_simtemp_poll: poll_wait links the caller's poll table to read_wait
\* and poll_wait, then the mask is computed under buffer.lock
Poll ==
    /\ poll_ret' = [mask |-> PollMask(buffer), seq |-> 1 - poll_ret.seq]
    /\ poll_log' = IF poll_log.on
                   THEN [poll_log EXCEPT
                           !.seen = @ \cup {<<buffer.count > 0,
                                              PollMask(buffer)>>}]
                   ELSE poll_log
    /\ UNCHANGED <<ss_pc, ss_val, bootVars, regVars, sigVars>>
    /\ UNCHANGED <<rd_log, ramp_at, cyc_log>>
    /\ UNCHANGED <<bufVars, cfgVars, statVars, simVars, timerVars, cbVars,
                   rdVars, ctlVars, histVars>>

\* the four statistics as they are now
StatsNow == <<update_count, alert_count, error_count, last_error>>

\* the positions of nxp_simtemp_remove, in order: the timer is stopped, then
\* the four attributes are removed one after the other; in each
\* device_remove_file the attribute is deactivated first (drain_) and the
\* call returns once no show or store of it is in progress (gone_)
RemoveSteps ==
    <<"live", "timer_stopped",
      "drain_stats", "gone_stats",
      "drain_mode", "gone_mode",
      "drain_threshold_mC", "gone_threshold_mC",
      "drain_sampling_ms", "sysfs_removed",
      "removed">>

\* the attributes in the order nxp_simtemp_remove_sysfs removes them, with
\* the position at which device_remove_file deactivates each
SysfsAttrs == {"stats", "mode", "threshold_mC", "sampling_ms"}

DrainStep ==
    [stats |-> 3, mode |-> 5, threshold_mC |-> 7, sampling_ms |-> 9]

RemovePos == CHOOSE i \in 1..Len(RemoveSteps) : RemoveSteps[i] = rm_pc

\* an attribute admits a new show or store until its device_remove_file
\* has deactivated it
AttrActive(a) == RemovePos < DrainStep[a]

\* a show or store of the attribute is in progress
AttrBusy(a) ==
    CASE a = "stats" -> ss_pc # "idle"
      [] a = "mode" ->
            \E w \in Writers :
               st_pc[w] \in {"m_lock", "m_counter", "m_direction", "m_write",
                             "m_unlock"}
      [] a = "threshold_mC" ->
            \E w \in Writers : st_pc[w] \in {"t_lock", "t_unlock"}
      [] a = "sampling_ms" ->
            \E w \in Writers :
               st_pc[w] \in {"lock", "cancel", "start", "unlock"}

\* stats_lock is held by nxp_simtemp_generate_temp inside its RAMP branch
GenerateHoldsLock == cb_pc \in {"ramp_load", "ramp_direction", "ramp_store"}

\* a read of the stats attribute enters stats_show: the attribute is still
\* active, and the call is in progress from here until it returns
StatsCall ==
    /\ ss_pc = "idle"
    /\ AttrActive("stats")
    /\ ss_pc' = "lock"
    /\ UNCHANGED <<poll_ret, ss_val, bootVars, regVars, logVars, sigVars>>
    /\ UNCHANGED <<bufVars, cfgVars, statVars, simVars, timerVars, cbVars,
                   rdVars, ctlVars, histVars>>

\* stats_show: spin_lock_irqsave(&data->stats_lock), taken once the
\* callback is outside its section; updates = ...
StatsReadUpdates ==
    /\ ss_pc = "lock"
    /\ ~GenerateHoldsLock
    /\ ss_val' = [NoStats EXCEPT !.updates = update_count,
                                 !.inst = <<StatsNow>>]
    /\ ss_pc' = "alerts"
    /\ UNCHANGED <<poll_ret, bootVars, regVars, logVars, sigVars>>
    /\ UNCHANGED <<bufVars, cfgVars, statVars, simVars, timerVars, cbVars,
                   rdVars, ctlVars, histVars>>

\* alerts = data->alert_count
StatsReadAlerts ==
    /\ ss_pc = "alerts"
    /\ ss_val' = [ss_val EXCEPT !.alerts = alert_count,
                                !.inst = Append(@, StatsNow)]
    /\ ss_pc' = "errors"
    /\ UNCHANGED <<poll_ret, bootVars, regVars, logVars, sigVars>>
    /\ UNCHANGED <<bufVars, cfgVars, statVars, simVars, timerVars, cbVars,
                   rdVars, ctlVars, histVars>>

\* errors = ...; last_error = ...; spin_unlock_irqrestore; sprintf
StatsReadErrors ==
    /\ ss_pc = "errors"
    /\ ss_val' = [ss_val EXCEPT !.errors = error_count,
                                !.last_error = last_error,
                                !.inst = Append(@, StatsNow)]
    /\ ss_pc' = "idle"
    /\ UNCHANGED <<poll_ret, bootVars, regVars, logVars, sigVars>>
    /\ UNCHANGED <<bufVars, cfgVars, statVars, simVars, timerVars, cbVars,
                   rdVars, ctlVars, histVars>>

(***************************************************************************)
(* Text conversions of the sysfs attributes.  A string is a sequence of    *)
(* characters; a 64-bit accumulator is four 16-bit limbs, lowest first.    *)
(***************************************************************************)
Digits == <<"0", "1", "2", "3", "4", "5", "6", "7", "8", "9">>

IsDigit(c) == \E i \in 1..10 : Digits[i] = c

DigitVal(c) == (CHOOSE i \in 1..10 : Digits[i] = c) - 1

\* res = res * base + val on an unsigned long long, with the overflow test
\* of _parse_integer
MulAdd64(acc, base, val) ==
    LET t1 == acc[1] * base + val
        t2 == acc[2] * base + (t1 \div LIMB)
        t3 == acc[3] * base + (t2 \div LIMB)
        t4 == acc[4] * base + (t3 \div LIMB)
    IN  [res |-> <<t1 % LIMB, t2 % LIMB, t3 % LIMB, t4 % LIMB>>,
         overflow |-> (t4 \div LIMB) > 0]

\* _parse_integer: consume decimal digits from position i on
RECURSIVE ParseInteger(_, _, _, _)
ParseInteger(s, i, acc, ovf) ==
    IF i <= Len(s) /\ IsDigit(s[i])
    THEN LET m == MulAdd64(acc, 10, DigitVal(s[i]))
         IN  ParseInteger(s, i + 1, m.res, ovf \/ m.overflow)
    ELSE [next |-> i, res |-> acc, overflow |-> ovf]

\* _kstrtoull(s, 10, &res): digits, optional final newline; no sign
_kstrtoull(s) ==
    LET p == ParseInteger(s, 1, <<0, 0, 0, 0>>, FALSE)
        rest == IF p.next <= Len(s) /\ s[p.next] = "\n"
                THEN p.next + 1 ELSE p.next
    IN  IF p.overflow THEN [ret |-> -ERANGE, res |-> <<0, 0, 0, 0>>]
        ELSE IF p.next = 1 THEN [ret |-> -EINVAL, res |-> <<0, 0, 0, 0>>]
        ELSE IF rest <= Len(s) THEN [ret |-> -EINVAL, res |-> <<0, 0, 0, 0>>]
        ELSE [ret |-> 0, res |-> p.res]

\* kstrtoull(s, 10, &res): if (s[0] == '+') s++; then _kstrtoull
kstrtoull(s) ==
    IF Len(s) >= 1 /\ s[1] = "+" THEN _kstrtoull(Tail(s)) ELSE _kstrtoull(s)

\* kstrtouint(s, 10, &val): the value must fit an unsigned int
kstrtouint(s) ==
    LET r == kstrtoull(s)
    IN  IF r.ret # 0 THEN [ret |-> r.ret, val |-> Wide(0, 0)]
        ELSE IF r.res[3] # 0 \/ r.res[4] # 0
        THEN [ret |-> -ERANGE, val |-> Wide(0, 0)]
        ELSE [ret |-> 0, val |-> Wide(r.res[2], r.res[1])]

\* sprintf(buf, "%u", n)
RECURSIVE FormatU(_)
FormatU(n) ==
    IF n < 10 THEN <<Digits[n + 1]>>
    ELSE Append(FormatU(n \div 10), Digits[(n % 10) + 1])

\* sampling_ms_show
sampling_ms_show == Append(FormatU(sampling_ms), "\n")

\* sprintf(buf, "%d", n); the magnitude of INT_MIN is written out
FormatD(n) ==
    IF n = (-2147483647) - 1
    THEN <<"-", "2", "1", "4", "7", "4", "8", "3", "6", "4", "8">>
    ELSE IF n < 0 THEN <<"-">> \o FormatU(0 - n)
    ELSE FormatU(n)

\* threshold_mC_show
threshold_mC_show == Append(FormatD(threshold_mC), "\n")

(***************************************************************************)
(* sampling_ms_store                                                       *)
(***************************************************************************)
\* texts written to the sampling_ms attribute
StoreInputs ==
    { <<"0">>, <<"1">>, <<"5", "0", "\n">>, <<"+", "7">>,
      <<"4", "2", "9", "5">>,
      <<"1", "0", "0", "0", "0">>, <<"1", "0", "0", "0", "1">>,
      <<"4", "2", "9", "4", "9", "6", "7", "2", "9", "6">>,
      <<"1", "8", "4", "4", "6", "7", "4", "4", "0", "7", "3", "7", "0", "9",
        "5", "5", "1", "6", "1", "6">>,
      <<"-", "1">>, <<"a", "b", "c">>, <<>> }

\* the range test without its lower bound
OutOfRange_NoLower(val) ==
    val.hi > 0 \/ val.lo > SAMPLING_MS_MAX

\* the range test of sampling_ms_store on the parsed unsigned int
OutOfRange(val) ==
    (val.hi = 0 /\ val.lo < 1) \/ val.hi > 0 \/ val.lo > SAMPLING_MS_MAX

\* kstrtouint on each of the texts
StoreParses == [buf \in StoreInputs |-> kstrtouint(buf)]

\* sampling_ms_store up to mutex_lock: parse and validate
StoreCall(w) ==
    /\ st_pc[w] = "idle"
    /\ AttrActive("sampling_ms")
    /\ \E buf \in StoreInputs :
          LET p == StoreParses[buf]
          IN  /\ st_buf' = [st_buf EXCEPT ![w] = buf]
              /\ IF p.ret # 0
                 THEN /\ st_ret' = [st_ret EXCEPT ![w] = p.ret]
                      /\ UNCHANGED <<st_pc, st_val>>
                 ELSE IF OutOfRange(p.val)
                 THEN /\ st_ret' = [st_ret EXCEPT ![w] = -EINVAL]
                      /\ UNCHANGED <<st_pc, st_val>>
                 ELSE /\ st_ret' = [st_ret EXCEPT ![w] = 0]
                      /\ st_pc' = [st_pc EXCEPT ![w] = "lock"]
                      /\ st_val' = [st_val EXCEPT ![w] = p.val.lo]
    /\ UNCHANGED <<config_mutex, rm_pc>>
    /\ UNCHANGED <<bufVars, cfgVars, statVars, simVars, timerVars, cbVars,
                   rdVars, histVars>>
    /\ UNCHANGED auxVars

\* mutex_lock; data->sampling_ms = val; data->period = ktime_set(...)
StoreLock(w) ==
    /\ st_pc[w] = "lock"
    /\ config_mutex = "free"
    /\ config_mutex' = w
    /\ sampling_ms' = st_val[w]
    /\ period' = PeriodOf(st_val[w])
    /\ st_pc' = [st_pc EXCEPT ![w] = "cancel"]
    /\ UNCHANGED <<threshold_mC, mode, st_buf, st_val, st_ret, rm_pc>>
    /\ UNCHANGED <<bufVars, statVars, simVars, timerVars, cbVars, rdVars,
                   histVars>>
    /\ UNCHANGED auxVars

\* hrtimer_cancel: waits for a running callback, then dequeues the timer
HrtimerCancel ==
    /\ cb_pc = "idle"
    /\ timer_state' = "inactive"
    /\ UNCHANGED <<timer_interval, fired_interval>>

\* hrtimer_cancel(&data->timer) in sampling_ms_store
StoreCancel(w) ==
    /\ st_pc[w] = "cancel"
    /\ HrtimerCancel
    /\ st_pc' = [st_pc EXCEPT ![w] = "start"]
    /\ UNCHANGED <<st_buf, st_val, st_ret, config_mutex, rm_pc>>
    /\ UNCHANGED <<bufVars, cfgVars, statVars, simVars, cbVars, rdVars,
                   histVars>>
    /\ UNCHANGED auxVars

\* hrtimer_start(&data->timer, data->period, HRTIMER_MODE_REL)
StoreStart(w) ==
    /\ st_pc[w] = "start"
    /\ timer_state' = "enqueued"
    /\ timer_interval' = period
    /\ st_pc' = [st_pc EXCEPT ![w] = "unlock"]
    /\ UNCHANGED <<fired_interval, st_buf, st_val, st_ret, config_mutex,
                   rm_pc>>
    /\ UNCHANGED <<bufVars, cfgVars, statVars, simVars, cbVars, rdVars,
                   histVars>>
    /\ UNCHANGED auxVars

\* mutex_unlock; return count
StoreUnlock(w) ==
    /\ st_pc[w] = "unlock"
    /\ config_mutex' = "free"
    /\ st_ret' = [st_ret EXCEPT ![w] = Len(st_buf[w])]
    /\ st_pc' = [st_pc EXCEPT ![w] = "idle"]
    /\ UNCHANGED <<st_buf, st_val, rm_pc>>
    /\ UNCHANGED <<bufVars, cfgVars, statVars, simVars, timerVars, cbVars,
                   rdVars, histVars>>
    /\ UNCHANGED auxVars

(***************************************************************************)
(* threshold_mC_store and mode_store                                       *)
(***************************************************************************)
\* kstrtos32 refusing the values below zero
kstrtos32_NonNegative(s) ==
    LET r == kstrtoull(s)
        m == r.res
    IN  IF r.ret # 0 THEN [ret |-> r.ret, val |-> 0]
        ELSE IF ~(m[3] = 0 /\ m[4] = 0 /\ m[2] < 32768)
        THEN [ret |-> -ERANGE, val |-> 0]
        ELSE [ret |-> 0, val |-> m[2] * LIMB + m[1]]

\* kstrtos32(s, 10, &val): kstrtoll (after '-' no '+' is accepted), then
\* the value must fit an int
kstrtos32(s) ==
    LET neg == Len(s) >= 1 /\ s[1] = "-"
        r == IF neg THEN _kstrtoull(Tail(s)) ELSE kstrtoull(s)
        m == r.res
        small == m[3] = 0 /\ m[4] = 0 /\ m[2] < 32768
        int_min == m[3] = 0 /\ m[4] = 0 /\ m[2] = 32768 /\ m[1] = 0
    IN  IF r.ret # 0 THEN [ret |-> r.ret, val |-> 0]
        ELSE IF neg /\ int_min THEN [ret |-> 0, val |-> (-2147483647) - 1]
        ELSE IF ~small THEN [ret |-> -ERANGE, val |-> 0]
        ELSE [ret |-> 0,
              val |-> IF neg THEN 0 - (m[2] * LIMB + m[1])
                      ELSE m[2] * LIMB + m[1]]

\* texts written to the threshold_mC attribute
ThresholdInputs ==
    { <<"2", "4", "5", "0", "0">>, <<"2", "3", "0", "0", "0", "\n">>,
      <<"2", "7", "0", "0", "0">>, <<"-", "5">>, <<"-", "+", "5">>,
      <<"2", "4", "8", "0", "0">>, <<"2", "6", "9", "9", "9">>,
      <<"2", "1", "4", "7", "4", "8", "3", "6", "4", "8">>,
      <<"2", "1", "4", "7", "4", "8", "3", "6", "4", "7">>,
      <<"-", "2", "1", "4", "7", "4", "8", "3", "6", "4", "8">>,
      <<"h", "o", "t">> }

\* kstrtos32 on each of the texts
ThresholdParses == [buf \in ThresholdInputs |-> kstrtos32(buf)]

\* mode_store's copy of buf: at most 15 characters, cut at the first newline
RECURSIVE UpToNewline(_)
UpToNewline(t) ==
    IF Len(t) = 0 \/ t[1] = "\n" THEN <<>>
    ELSE <<t[1]>> \o UpToNewline(Tail(t))

ModeStr(buf) ==
    UpToNewline(SubSeq(buf, 1, IF Len(buf) < 15 THEN Len(buf) ELSE 15))

\* a ramp that always starts upwards
InitRampDirection_Up(threshold) == 1

\* nxp_simtemp_init_ramp_mode: the new ramp_direction
InitRampDirection(threshold) ==
    IF threshold < BASE_TEMP_MC THEN -1 ELSE 1

\* the ramp re-initialised on every store of "ramp"
EntersRamp_Any(new, old) == new = "ramp"

\* mode == SIMTEMP_MODE_RAMP && data->mode != SIMTEMP_MODE_RAMP
EntersRamp(new, old) == new = "ramp" /\ old # "ramp"

\* mode_show
mode_show == ModeText(mode) \o <<"\n">>

\* texts written to the mode attribute
ModeInputs ==
    { ModeText("normal"), ModeText("noisy") \o <<"\n">>, ModeText("ramp"),
      <<"R", "A", "M", "P">>, <<>>,
      ModeText("ramp") \o <<"\n", "x">> }

\* nxp_simtemp_parse_mode_string on mode_store's copy of each text
ModeParses ==
    [buf \in ModeInputs |-> nxp_simtemp_parse_mode_string(ModeStr(buf))]

(***************************************************************************)
(* threshold_mC_store and mode_store: the parse, the entry into the        *)
(* config_mutex section, each write of the section, the exit               *)
(***************************************************************************)
\* threshold_mC_store: kstrtos32 and the return of its error
ThresholdCall(w) ==
    /\ st_pc[w] = "idle"
    /\ AttrActive("threshold_mC")
    /\ \E buf \in ThresholdInputs :
          LET p == ThresholdParses[buf]
          IN  /\ st_buf' = [st_buf EXCEPT ![w] = buf]
              /\ IF p.ret # 0
                 THEN /\ st_ret' = [st_ret EXCEPT ![w] = p.ret]
                      /\ UNCHANGED <<st_pc, st_val>>
                 ELSE /\ st_ret' = [st_ret EXCEPT ![w] = 0]
                      /\ st_pc' = [st_pc EXCEPT ![w] = "t_lock"]
                      /\ st_val' = [st_val EXCEPT ![w] = p.val]
    /\ UNCHANGED <<config_mutex, rm_pc>>
    /\ UNCHANGED <<bufVars, cfgVars, statVars, simVars, timerVars, cbVars,
                   rdVars, histVars>>
    /\ UNCHANGED auxVars

\* the write of threshold_mC without the mutex
ThresholdLock_NoMutex(w) ==
    /\ st_pc[w] = "t_lock"
    /\ threshold_mC' = st_val[w]
    /\ cyc_log' = IF cyc_log.on THEN [cyc_log EXCEPT !.stored = TRUE]
                  ELSE cyc_log
    /\ st_pc' = [st_pc EXCEPT ![w] = "t_unlock"]
    /\ UNCHANGED <<sampling_ms, mode, period, st_buf, st_val, st_ret,
                   config_mutex, rm_pc>>
    /\ UNCHANGED <<bufVars, statVars, simVars, timerVars, cbVars, rdVars,
                   histVars>>
    /\ UNCHANGED <<obsVars, bootVars, regVars, sigVars, rd_log, ramp_at,
                   poll_log>>

\* mutex_lock; data->threshold_mC = val
ThresholdLock(w) ==
    /\ st_pc[w] = "t_lock"
    /\ config_mutex = "free"
    /\ config_mutex' = w
    /\ threshold_mC' = st_val[w]
    /\ cyc_log' = IF cyc_log.on THEN [cyc_log EXCEPT !.stored = TRUE]
                  ELSE cyc_log
    /\ st_pc' = [st_pc EXCEPT ![w] = "t_unlock"]
    /\ UNCHANGED <<sampling_ms, mode, period, st_buf, st_val, st_ret, rm_pc>>
    /\ UNCHANGED <<bufVars, statVars, simVars, timerVars, cbVars, rdVars,
                   histVars>>
    /\ UNCHANGED <<obsVars, bootVars, regVars, sigVars, rd_log, ramp_at,
                   poll_log>>

\* mutex_unlock; return count
ThresholdUnlock(w) ==
    /\ st_pc[w] = "t_unlock"
    /\ config_mutex' = "free"
    /\ st_ret' = [st_ret EXCEPT ![w] = Len(st_buf[w])]
    /\ st_pc' = [st_pc EXCEPT ![w] = "idle"]
    /\ UNCHANGED <<st_buf, st_val, rm_pc>>
    /\ UNCHANGED <<bufVars, cfgVars, statVars, simVars, timerVars, cbVars,
                   rdVars, histVars>>
    /\ UNCHANGED auxVars

\* the mode a mode_store call in progress has parsed
ParsedMode(w) == ModeParses[st_buf[w]].mode

\* mode_store: the copy of buf, nxp_simtemp_parse_mode_string and the
\* return of -EINVAL
ModeCall(w) ==
    /\ st_pc[w] = "idle"
    /\ AttrActive("mode")
    /\ \E buf \in ModeInputs :
          /\ st_buf' = [st_buf EXCEPT ![w] = buf]
          /\ IF ModeParses[buf].ret # 0
             THEN /\ st_ret' = [st_ret EXCEPT ![w] = -EINVAL]
                  /\ UNCHANGED st_pc
             ELSE /\ st_ret' = [st_ret EXCEPT ![w] = 0]
                  /\ st_pc' = [st_pc EXCEPT ![w] = "m_lock"]
    /\ UNCHANGED <<st_val, config_mutex, rm_pc>>
    /\ UNCHANGED <<bufVars, cfgVars, statVars, simVars, timerVars, cbVars,
                   rdVars, histVars>>
    /\ UNCHANGED auxVars

\* mutex_lock and the test for a switch into RAMP from another mode
ModeLock(w) ==
    /\ st_pc[w] = "m_lock"
    /\ config_mutex = "free"
    /\ config_mutex' = w
    /\ st_pc' = [st_pc EXCEPT
                    ![w] = IF EntersRamp(ParsedMode(w), mode)
                           THEN "m_counter" ELSE "m_write"]
    /\ UNCHANGED <<st_buf, st_val, st_ret, rm_pc>>
    /\ UNCHANGED <<bufVars, cfgVars, statVars, simVars, timerVars, cbVars,
                   rdVars, histVars>>
    /\ UNCHANGED auxVars

\* nxp_simtemp_init_ramp_mode: data->ramp_counter = 0
ModeInitCounter(w) ==
    /\ st_pc[w] = "m_counter"
    /\ ramp_counter' = 0
    /\ st_pc' = [st_pc EXCEPT ![w] = "m_direction"]
    /\ UNCHANGED <<last_temp_mC, ramp_direction>>
    /\ UNCHANGED <<st_buf, st_val, st_ret, config_mutex, rm_pc>>
    /\ UNCHANGED <<bufVars, cfgVars, statVars, timerVars, cbVars, rdVars,
                   histVars>>
    /\ UNCHANGED auxVars

\* nxp_simtemp_init_ramp_mode: the direction chosen from the threshold
ModeInitDirection(w) ==
    /\ st_pc[w] = "m_direction"
    /\ ramp_direction' = InitRampDirection(threshold_mC)
    /\ st_pc' = [st_pc EXCEPT ![w] = "m_write"]
    /\ UNCHANGED <<last_temp_mC, ramp_counter>>
    /\ UNCHANGED <<st_buf, st_val, st_ret, config_mutex, rm_pc>>
    /\ UNCHANGED <<bufVars, cfgVars, statVars, timerVars, cbVars, rdVars,
                   histVars>>
    /\ UNCHANGED auxVars

\* data->mode = mode
ModeWrite(w) ==
    /\ st_pc[w] = "m_write"
    /\ mode' = ParsedMode(w)
    /\ ramp_at' = IF ramp_at.on /\ EntersRamp(ParsedMode(w), mode)
                  THEN [ramp_at EXCEPT
                          !.at = ktime, !.first = TRUE,
                          !.dir = InitRampDirection(threshold_mC)]
                  ELSE ramp_at
    /\ st_pc' = [st_pc EXCEPT ![w] = "m_unlock"]
    /\ UNCHANGED <<sampling_ms, threshold_mC, period>>
    /\ UNCHANGED <<st_buf, st_val, st_ret, config_mutex, rm_pc>>
    /\ UNCHANGED <<bufVars, statVars, simVars, timerVars, cbVars, rdVars,
                   histVars>>
    /\ UNCHANGED <<obsVars, bootVars, regVars, rd_log, cyc_log, sigVars,
                   poll_log>>

\* mutex_unlock; return count
ModeUnlock(w) ==
    /\ st_pc[w] = "m_unlock"
    /\ config_mutex' = "free"
    /\ st_ret' = [st_ret EXCEPT ![w] = Len(st_buf[w])]
    /\ st_pc' = [st_pc EXCEPT ![w] = "idle"]
    /\ UNCHANGED <<st_buf, st_val, rm_pc>>
    /\ UNCHANGED <<bufVars, cfgVars, statVars, simVars, timerVars, cbVars,
                   rdVars, histVars>>
    /\ UNCHANGED auxVars

(***************************************************************************)
(* nxp_simtemp_remove                                                      *)
(***************************************************************************)
\* nxp_simtemp_cleanup_timer: hrtimer_cancel
RemoveCleanupTimer ==
    /\ rm_pc = "live"
    /\ HrtimerCancel
    /\ rm_pc' = "timer_stopped"
    /\ UNCHANGED <<st_pc, st_buf, st_val, st_ret, config_mutex>>
    /\ UNCHANGED <<bufVars, cfgVars, statVars, simVars, cbVars, rdVars,
                   histVars>>
    /\ UNCHANGED auxVars

\* nxp_simtemp_remove_sysfs, device_remove_file(dev, &dev_attr_a) entered:
\* the attribute is deactivated and admits no new show or store
DeviceRemoveFile(a) ==
    /\ RemovePos = DrainStep[a] - 1
    /\ rm_pc' = RemoveSteps[DrainStep[a]]
    /\ UNCHANGED <<st_pc, st_buf, st_val, st_ret, config_mutex>>
    /\ UNCHANGED <<bufVars, cfgVars, statVars, simVars, timerVars, cbVars,
                   rdVars, histVars>>
    /\ UNCHANGED auxVars

\* device_remove_file returns once the shows and stores of the attribute
\* that were in progress have returned
RemoveFileDrained(a) ==
    /\ RemovePos = DrainStep[a]
    /\ ~AttrBusy(a)
    /\ rm_pc' = RemoveSteps[DrainStep[a] + 1]
    /\ UNCHANGED <<st_pc, st_buf, st_val, st_ret, config_mutex>>
    /\ UNCHANGED <<bufVars, cfgVars, statVars, simVars, timerVars, cbVars,
                   rdVars, histVars>>
    /\ UNCHANGED auxVars

\* misc_deregister and return
RemoveMisc ==
    /\ rm_pc = "sysfs_removed"
    /\ rm_pc' = "removed"
    /\ UNCHANGED <<st_pc, st_buf, st_val, st_ret, config_mutex>>
    /\ UNCHANGED <<bufVars, cfgVars, statVars, simVars, timerVars, cbVars,
                   rdVars, histVars>>
    /\ UNCHANGED auxVars

(***************************************************************************)
(* Producer and a writer of sampling_ms                                    *)
(***************************************************************************)
\* number of producer cycles explored next to the configuration writers
MaxTimerCycles == 2

\* the store callers of this specification
TimerWriters == {"w1"}

NextTimer ==
    \/ Fire(MaxTimerCycles)
    \/ Generate \/ CompareNew \/ CompareLast \/ Push \/ Wake \/ Forward
    \/ \E w \in TimerWriters : StoreCall(w)
    \/ \E w \in TimerWriters : StoreLock(w)
    \/ \E w \in TimerWriters : StoreCancel(w)
    \/ \E w \in TimerWriters : StoreStart(w)
    \/ \E w \in TimerWriters : StoreUnlock(w)

SpecTimer == Init /\ [][NextTimer]_vars

(***************************************************************************)
(* Device removal next to the producer and to calls of every attribute: a  *)
(* writer of sampling_ms, a writer of threshold_mC and mode, and a reader  *)
(* of stats                                                                *)
(***************************************************************************)
\* number of producer cycles explored next to the removal
MaxRemoveCycles == 1

\* the caller of sampling_ms_store, and the caller of threshold_mC_store
\* and mode_store, with the texts they store
RemoveSamplingWriters == {"w1"}

RemoveConfigWriters == {"w2"}

RemoveSampling == { <<"1">> }

RemoveThresholds == { <<"2", "4", "5", "0", "0">> }

RemoveModes == { ModeText("ramp") }

NextRemove ==
    \/ Fire(MaxRemoveCycles)
    \/ Generate \/ RampLoadCounter \/ RampLoadDirection \/ RampStore
    \/ CompareNew \/ CompareLast \/ Push \/ Wake \/ Forward
    \/ \E w \in RemoveSamplingWriters :
          StoreCall(w) /\ st_buf'[w] \in RemoveSampling
    \/ \E w \in RemoveSamplingWriters : StoreLock(w)
    \/ \E w \in RemoveSamplingWriters : StoreCancel(w)
    \/ \E w \in RemoveSamplingWriters : StoreStart(w)
    \/ \E w \in RemoveSamplingWriters : StoreUnlock(w)
    \/ \E w \in RemoveConfigWriters :
          ThresholdCall(w) /\ st_buf'[w] \in RemoveThresholds
    \/ \E w \in RemoveConfigWriters : ThresholdLock(w)
    \/ \E w \in RemoveConfigWriters : ThresholdUnlock(w)
    \/ \E w \in RemoveConfigWriters :
          ModeCall(w) /\ st_buf'[w] \in RemoveModes
    \/ \E w \in RemoveConfigWriters : ModeLock(w)
    \/ \E w \in RemoveConfigWriters : ModeInitCounter(w)
    \/ \E w \in RemoveConfigWriters : ModeInitDirection(w)
    \/ \E w \in RemoveConfigWriters : ModeWrite(w)
    \/ \E w \in RemoveConfigWriters : ModeUnlock(w)
    \/ StatsCall
    \/ StatsReadUpdates
    \/ StatsReadAlerts
    \/ StatsReadErrors
    \/ RemoveCleanupTimer
    \/ \E a \in SysfsAttrs : DeviceRemoveFile(a)
    \/ \E a \in SysfsAttrs : RemoveFileDrained(a)
    \/ RemoveMisc

SpecRemove == Init /\ [][NextRemove]_vars

(***************************************************************************)
(* Producer, threshold and mode writers: the alert detector                *)
(***************************************************************************)
\* number of producer cycles explored next to the threshold and mode writers
MaxDetectCycles == 1

\* the store callers of this specification
DetectWriters == {"w1"}

NextDetect ==
    \/ Fire(MaxDetectCycles)
    \/ Generate \/ RampLoadCounter \/ RampLoadDirection \/ RampStore
    \/ CompareNew \/ CompareLast \/ Push \/ Wake \/ Forward
    \/ \E w \in DetectWriters : ThresholdCall(w)
    \/ \E w \in DetectWriters : ThresholdLock(w)
    \/ \E w \in DetectWriters : ThresholdUnlock(w)
    \/ \E w \in DetectWriters : ModeCall(w)
    \/ \E w \in DetectWriters : ModeLock(w)
    \/ \E w \in DetectWriters : ModeInitCounter(w)
    \/ \E w \in DetectWriters : ModeInitDirection(w)
    \/ \E w \in DetectWriters : ModeWrite(w)
    \/ \E w \in DetectWriters : ModeUnlock(w)

SpecDetect == Init /\ [][NextDetect]_vars

(***************************************************************************)
(* Producer and consumers from probe                                       *)
(***************************************************************************)
Next ==
    \/ Fire(MaxCycles)
    \/ Generate \/ CompareNew \/ CompareLast \/ Push \/ Wake \/ Forward
    \/ \E r \in Readers : ReadCall(r)
    \/ \E r \in Readers : WaitCond(r)
    \/ \E r \in Readers : Prepare(r)
    \/ \E r \in Readers : Check(r)
    \/ \E r \in Readers : FinishWait(r)
    \/ \E r \in Readers : Schedule(r)
    \/ \E r \in Readers : Copy(r)

Spec == Init /\ [][Next]_vars

(***************************************************************************)
(* Producer and consumers under fair scheduling: an armed timer expires,   *)
(* a running callback runs to its end, and a runnable reader inside        *)
(* nxp_simtemp_read is scheduled.  Whether read is called is up to the     *)
(* caller.                                                                 *)
(***************************************************************************)
\* number of producer cycles explored under fairness
MaxLiveCycles == 2

ProducerStep == Fire(MaxLiveCycles) \/ Callback

ReaderStep(r) ==
    \/ WaitCond(r) \/ Prepare(r) \/ Check(r) \/ FinishWait(r)
    \/ Schedule(r) \/ Copy(r)

NextLive ==
    \/ Fire(MaxLiveCycles)
    \/ Generate \/ CompareNew \/ CompareLast \/ Push \/ Wake \/ Forward
    \/ \E r \in Readers : ReadCall(r)
    \/ \E r \in Readers : WaitCond(r)
    \/ \E r \in Readers : Prepare(r)
    \/ \E r \in Readers : Check(r)
    \/ \E r \in Readers : FinishWait(r)
    \/ \E r \in Readers : Schedule(r)
    \/ \E r \in Readers : Copy(r)

SpecLive ==
    /\ Init
    /\ [][NextLive]_vars
    /\ WF_vars(ProducerStep)
    /\ \A r \in Readers : WF_vars(ReaderStep(r))

(***************************************************************************)
(* Producer, readers whose calls are logged, and a poller                  *)
(***************************************************************************)
\* number of producer cycles explored next to the logged readers
MaxReadCycles == 2

InitRead == Probe(NoNode) /\ Histories(TRUE)

NextRead ==
    \/ Fire(MaxReadCycles)
    \/ Generate \/ CompareNew \/ CompareLast \/ Push \/ Wake \/ Forward
    \/ \E r \in Readers : ReadCall(r)
    \/ \E r \in Readers : WaitCond(r)
    \/ \E r \in Readers : Prepare(r)
    \/ \E r \in Readers : Check(r)
    \/ \E r \in Readers : FinishWait(r)
    \/ \E r \in Readers : Schedule(r)
    \/ \E r \in Readers : Copy(r)
    \/ Poll

SpecRead == InitRead /\ [][NextRead]_vars

(***************************************************************************)
(* Producer and a writer of threshold_mC and mode, one cycle               *)
(***************************************************************************)
\* number of producer cycles explored next to the mode writer
MaxModeCycles == 1

\* the store caller of this specification
ModeWriters == {"w1"}

NextMode ==
    \/ Fire(MaxModeCycles)
    \/ Generate \/ RampLoadCounter \/ RampLoadDirection \/ RampStore
    \/ CompareNew \/ CompareLast \/ Push \/ Wake \/ Forward
    \/ \E w \in ModeWriters : ThresholdCall(w)
    \/ \E w \in ModeWriters : ThresholdLock(w)
    \/ \E w \in ModeWriters : ThresholdUnlock(w)
    \/ \E w \in ModeWriters : ModeCall(w)
    \/ \E w \in ModeWriters : ModeLock(w)
    \/ \E w \in ModeWriters : ModeInitCounter(w)
    \/ \E w \in ModeWriters : ModeInitDirection(w)
    \/ \E w \in ModeWriters : ModeWrite(w)
    \/ \E w \in ModeWriters : ModeUnlock(w)

SpecMode == Init /\ [][NextMode]_vars

(***************************************************************************)
(* Startup on a device-tree node, then the producer and a writer of mode   *)
(***************************************************************************)
\* number of producer cycles explored after startup
MaxBootCycles == 1

\* the store caller of this specification
BootWriters == {"w1"}

\* u32 cells of the sampling-ms property
DtSamplingCells ==
    { Wide(0, 0), Wide(0, 1), Wide(0, 75), Wide(0, SAMPLING_MS_MAX),
      Wide(0, SAMPLING_MS_MAX + 1), Wide(1, 75), Wide(LIMB - 1, LIMB - 1) }

\* u32 cells of the threshold-mC property: 35000 and -5
DtThresholdCells == { Wide(0, 35000), Wide(LIMB - 1, LIMB - 5) }

\* strings of the mode property
DtModeStrings ==
    { ModeText("normal"), ModeText("noisy"), ModeText("ramp"),
      <<"t", "u", "r", "b", "o">>, <<>> }

\* the device-tree nodes probe is started on
DtNodes ==
    {NoNode, DtNode(Absent(Wide(0, 0)), Absent(Wide(0, 0)), Absent(<<>>)),
     DtNode(Present(Wide(0, 75)), Present(Wide(0, 35000)),
            Present(ModeText("noisy")))}
    \cup {DtNode(Present(c), Absent(Wide(0, 0)), Absent(<<>>)) :
             c \in DtSamplingCells}
    \cup {DtNode(Absent(Wide(0, 0)), Present(c), Absent(<<>>)) :
             c \in DtThresholdCells}
    \cup {DtNode(Absent(Wide(0, 0)), Absent(Wide(0, 0)), Present(m)) :
             m \in DtModeStrings}
    \cup {DtNode(Present(Wide(0, SAMPLING_MS_MAX + 1)),
                 Present(Wide(0, 35000)), Present(ModeText("noisy"))),
          DtNode(Present(Wide(0, 75)), Present(Wide(0, 35000)),
                 Present(<<"t", "u", "r", "b", "o">>))}

InitBoot == \E np \in DtNodes : Probe(np) /\ Histories(FALSE)

NextBoot ==
    \/ Fire(MaxBootCycles)
    \/ Generate \/ RampLoadCounter \/ RampLoadDirection \/ RampStore
    \/ CompareNew \/ CompareLast \/ Push \/ Wake \/ Forward
    \/ \E w \in BootWriters : ModeCall(w)
    \/ \E w \in BootWriters : ModeLock(w)
    \/ \E w \in BootWriters : ModeInitCounter(w)
    \/ \E w \in BootWriters : ModeInitDirection(w)
    \/ \E w \in BootWriters : ModeWrite(w)
    \/ \E w \in BootWriters : ModeUnlock(w)

SpecBoot == InitBoot /\ [][NextBoot]_vars

(***************************************************************************)
(* Producer and a stats_show caller, started in NOISY mode on a threshold  *)
(* the noise crosses                                                       *)
(***************************************************************************)
\* number of producer cycles explored next to stats_show
MaxStatsCycles == 3

\* device-tree node: threshold-mC = <24500>, mode = "noisy"
StatsNode ==
    DtNode(Absent(Wide(0, 0)), Present(Wide(0, 24500)),
           Present(ModeText("noisy")))

InitStats == Probe(StatsNode) /\ Histories(FALSE)

NextStats ==
    \/ Fire(MaxStatsCycles)
    \/ Generate \/ CompareNew \/ CompareLast \/ Push \/ Wake \/ Forward
    \/ StatsCall
    \/ StatsReadUpdates
    \/ StatsReadAlerts
    \/ StatsReadErrors

SpecStats == InitStats /\ [][NextStats]_vars

(***************************************************************************)
(* The alert scenario: the threshold is written while the mode is NORMAL,  *)
(* then the mode is switched to RAMP; the producer runs all along and the  *)
(* ring keeps every sample.                                                *)
(***************************************************************************)
\* number of producer cycles explored in the alert scenario
MaxRampCycles == 12

\* number of producer cycles that may start before the switch
RampLead == 1

\* the store caller of this specification
RampWriters == {"w1"}

InitRamp == Probe(NoNode) /\ Histories(TRUE)

NextRamp ==
    \/ /\ ramp_at.at >= 0 \/ update_count < RampLead
       /\ Fire(MaxRampCycles)
    \/ Generate \/ RampLoadCounter \/ RampLoadDirection \/ RampStore
    \/ CompareNew \/ CompareLast \/ Push \/ Wake \/ Forward
    \/ /\ mode = "normal"
       /\ \E w \in RampWriters : st_buf[w] = <<>> /\ ThresholdCall(w)
    \/ \E w \in RampWriters : ThresholdLock(w)
    \/ \E w \in RampWriters : ThresholdUnlock(w)
    \/ /\ mode = "normal"
       /\ \E w \in RampWriters :
             ModeCall(w) /\ ModeStr(st_buf'[w]) # ModeText("noisy")
    \/ \E w \in RampWriters : ModeLock(w)
    \/ \E w \in RampWriters : ModeInitCounter(w)
    \/ \E w \in RampWriters : ModeInitDirection(w)
    \/ \E w \in RampWriters : ModeWrite(w)
    \/ \E w \in RampWriters : ModeUnlock(w)

SpecRamp == InitRamp /\ [][NextRamp]_vars

(***************************************************************************)
(* Producer and consumers whose waits can be interrupted by a signal,      *)
(* under fair scheduling                                                   *)
(***************************************************************************)
\* number of producer cycles explored next to the interrupted readers
MaxCancelCycles == 1

CancelProducerStep == Fire(MaxCancelCycles) \/ Callback

NextCancel ==
    \/ Fire(MaxCancelCycles)
    \/ Generate \/ CompareNew \/ CompareLast \/ Push \/ Wake \/ Forward
    \/ \E r \in Readers : ReadCall(r)
    \/ \E r \in Readers : WaitCond(r)
    \/ \E r \in Readers : Prepare(r)
    \/ \E r \in Readers : Check(r)
    \/ \E r \in Readers : FinishWait(r)
    \/ \E r \in Readers : Schedule(r)
    \/ \E r \in Readers : Copy(r)
    \/ \E r \in Readers : Signal(r)

SpecCancel ==
    /\ Init
    /\ [][NextCancel]_vars
    /\ WF_vars(CancelProducerStep)
    /\ \A r \in Readers : WF_vars(ReaderStep(r))

(***************************************************************************)
(* Producer in NOISY mode and a writer of threshold_mC, the threshold at   *)
(* the start of each cycle being kept                                      *)
(***************************************************************************)
\* number of producer cycles explored next to the threshold writer
MaxThresholdCycles == 1

\* the store caller of this specification
ThresholdWriters == {"w1"}

InitThreshold == Probe(StatsNode) /\ Histories(TRUE)

NextThreshold ==
    \/ Fire(MaxThresholdCycles)
    \/ Generate \/ CompareNew \/ CompareLast \/ Push \/ Wake \/ Forward
    \/ \E w \in ThresholdWriters : ThresholdCall(w)
    \/ \E w \in ThresholdWriters : ThresholdLock(w)
    \/ \E w \in ThresholdWriters : ThresholdUnlock(w)

SpecThreshold == InitThreshold /\ [][NextThreshold]_vars

(***************************************************************************)
(* Producer on a ring that fills up, a consumer and a writer of            *)
(* sampling_ms, under fair scheduling: an armed timer that stays armed     *)
(* expires, a running callback runs to its end, and a reader or writer     *)
(* inside a call is scheduled.                                             *)
(***************************************************************************)
\* number of producer cycles explored under fairness next to the writer
MaxForeverCycles == 3

\* the read and store callers of this specification
ForeverReaders == {"r1"}
ForeverWriters == {"w1"}

\* the texts written to sampling_ms in this specification: 50 ms and the
\* rejected 0
ForeverInputs == { <<"5", "0", "\n">>, <<"0">> }

ForeverProducerStep == Fire(MaxForeverCycles) \/ Callback

\* the steps of sampling_ms_store after its validation
WriterStep(w) == StoreLock(w) \/ StoreCancel(w) \/ StoreStart(w) \/ StoreUnlock(w)

NextForever ==
    \/ Fire(MaxForeverCycles)
    \/ Generate \/ CompareNew \/ CompareLast \/ Push \/ Wake \/ Forward
    \/ \E r \in ForeverReaders : ReadCall(r)
    \/ \E r \in ForeverReaders : WaitCond(r)
    \/ \E r \in ForeverReaders : Prepare(r)
    \/ \E r \in ForeverReaders : Check(r)
    \/ \E r \in ForeverReaders : FinishWait(r)
    \/ \E r \in ForeverReaders : Schedule(r)
    \/ \E r \in ForeverReaders : Copy(r)
    \/ \E w \in ForeverWriters :
          StoreCall(w) /\ st_buf'[w] \in ForeverInputs
    \/ \E w \in ForeverWriters : StoreLock(w)
    \/ \E w \in ForeverWriters : StoreCancel(w)
    \/ \E w \in ForeverWriters : StoreStart(w)
    \/ \E w \in ForeverWriters : StoreUnlock(w)

SpecForever ==
    /\ Init
    /\ [][NextForever]_vars
    /\ WF_vars(ForeverProducerStep)
    /\ \A r \in ForeverReaders : WF_vars(ReaderStep(r))
    /\ \A w \in ForeverWriters : WF_vars(WriterStep(w))

(***************************************************************************)
(* Producer and a writer of mode, started in NOISY mode on a threshold     *)
(* below the base temperature                                              *)
(***************************************************************************)
\* number of producer cycles explored next to the mode writer
MaxModesCycles == 3

\* the store caller of this specification
ModesWriters == {"w1"}

InitModes == Probe(StatsNode) /\ Histories(FALSE)

NextModes ==
    \/ Fire(MaxModesCycles)
    \/ Generate \/ RampLoadCounter \/ RampLoadDirection \/ RampStore
    \/ CompareNew \/ CompareLast \/ Push \/ Wake \/ Forward
    \/ \E w \in ModesWriters : ModeCall(w)
    \/ \E w \in ModesWriters : ModeLock(w)
    \/ \E w \in ModesWriters : ModeInitCounter(w)
    \/ \E w \in ModesWriters : ModeInitDirection(w)
    \/ \E w \in ModesWriters : ModeWrite(w)
    \/ \E w \in ModesWriters : ModeUnlock(w)

SpecModes == InitModes /\ [][NextModes]_vars

(***************************************************************************)
(* A full sweep of the ramp: the mode is switched from NORMAL to RAMP on   *)
(* the startup threshold or on one written before, and the producer runs   *)
(* for more than one period of the ramp; the ring keeps every sample.      *)
(***************************************************************************)
\* number of producer cycles explored in the sweep
MaxSweepCycles == 24

\* the store caller of this specification
SweepWriters == {"w1"}

InitSweep == Probe(NoNode) /\ Histories(TRUE)

NextSweep ==
    \/ /\ ramp_at.at >= 0 \/ update_count < RampLead
       /\ Fire(MaxSweepCycles)
    \/ Generate \/ RampLoadCounter \/ RampLoadDirection \/ RampStore
    \/ CompareNew \/ CompareLast \/ Push \/ Wake \/ Forward
    \/ /\ mode = "normal"
       /\ \E w \in SweepWriters : st_buf[w] = <<>> /\ ThresholdCall(w)
    \/ \E w \in SweepWriters : ThresholdLock(w)
    \/ \E w \in SweepWriters : ThresholdUnlock(w)
    \/ /\ mode = "normal"
       /\ \E w \in SweepWriters :
             ModeCall(w) /\ ModeStr(st_buf'[w]) # ModeText("noisy")
    \/ \E w \in SweepWriters : ModeLock(w)
    \/ \E w \in SweepWriters : ModeInitCounter(w)
    \/ \E w \in SweepWriters : ModeInitDirection(w)
    \/ \E w \in SweepWriters : ModeWrite(w)
    \/ \E w \in SweepWriters : ModeUnlock(w)

SpecSweep == InitSweep /\ [][NextSweep]_vars

(***************************************************************************)
(* Producer in NOISY mode on a threshold the noise crosses, on a ring that *)
(* fills up, and a consumer; the flagged samples are counted               *)
(***************************************************************************)
\* number of producer cycles explored next to the consumer
MaxAlertCycles == 3

\* the read caller of this specification
AlertReaders == {"r1"}

InitAlerts == Probe(StatsNode) /\ Histories(TRUE)

NextAlerts ==
    \/ Fire(MaxAlertCycles)
    \/ Generate \/ CompareNew \/ CompareLast \/ Push \/ Wake \/ Forward
    \/ \E r \in AlertReaders : ReadCall(r)
    \/ \E r \in AlertReaders : WaitCond(r)
    \/ \E r \in AlertReaders : Prepare(r)
    \/ \E r \in AlertReaders : Check(r)
    \/ \E r \in AlertReaders : FinishWait(r)
    \/ \E r \in AlertReaders : Schedule(r)
    \/ \E r \in AlertReaders : Copy(r)

SpecAlerts == InitAlerts /\ [][NextAlerts]_vars

(***************************************************************************)
(* The operations that run next to the producer while the counters go up:  *)
(* a mode writer and stats_show                                            *)
(***************************************************************************)
\* number of producer cycles explored next to all the other operations
MaxCounterCycles == 3

\* the texts written to the mode attribute here: one for each mode
CounterModes ==
    { ModeText("normal"), ModeText("noisy") \o <<"\n">>, ModeText("ramp") }

\* the store caller of this specification
CounterWriters == {"w1"}

InitCounters == Probe(StatsNode) /\ Histories(FALSE)

NextCounters ==
    \/ Fire(MaxCounterCycles)
    \/ Generate \/ RampLoadCounter \/ RampLoadDirection \/ RampStore
    \/ CompareNew \/ CompareLast \/ Push \/ Wake \/ Forward
    \/ \E w \in CounterWriters :
          ModeCall(w) /\ st_buf'[w] \in CounterModes
    \/ \E w \in CounterWriters : ModeLock(w)
    \/ \E w \in CounterWriters : ModeInitCounter(w)
    \/ \E w \in CounterWriters : ModeInitDirection(w)
    \/ \E w \in CounterWriters : ModeWrite(w)
    \/ \E w \in CounterWriters : ModeUnlock(w)
    \/ StatsCall
    \/ StatsReadUpdates
    \/ StatsReadAlerts
    \/ StatsReadErrors

SpecCounters == InitCounters /\ [][NextCounters]_vars

(***************************************************************************)
(* Producer and two writers of sampling_ms contending for config_mutex;   *)
(* only a callback that is running is scheduled fairly, so a writer may    *)
(* keep the mutex for ever                                                 *)
(***************************************************************************)
\* number of producer cycles explored next to the contending writers
MaxHeldCycles == 2

\* the store callers of this specification
HeldWriters == {"w1", "w2"}

NextHeld ==
    \/ Fire(MaxHeldCycles)
    \/ Generate \/ CompareNew \/ CompareLast \/ Push \/ Wake \/ Forward
    \/ \E w \in HeldWriters :
          StoreCall(w) /\ st_buf'[w] \in ForeverInputs
    \/ \E w \in HeldWriters : StoreLock(w)
    \/ \E w \in HeldWriters : StoreCancel(w)
    \/ \E w \in HeldWriters : StoreStart(w)
    \/ \E w \in HeldWriters : StoreUnlock(w)

SpecHeld == Init /\ [][NextHeld]_vars /\ WF_vars(Callback)

(***************************************************************************)
(* Two callers writing the three attributes at the same time, next to the  *)
(* producer                                                                *)
(***************************************************************************)
\* number of producer cycles explored next to the two writers
MaxSerialCycles == 1

\* the texts written here: 1 ms and 50 ms, a threshold below the base
\* temperature, the mode RAMP
SerialSampling == { <<"1">>, <<"5", "0", "\n">> }

SerialThresholds == { <<"-", "5">> }

SerialModes == { ModeText("ramp") }

NextSerial ==
    \/ Fire(MaxSerialCycles)
    \/ Generate \/ RampLoadCounter \/ RampLoadDirection \/ RampStore
    \/ CompareNew \/ CompareLast \/ Push \/ Wake \/ Forward
    \/ \E w \in Writers : StoreCall(w) /\ st_buf'[w] \in SerialSampling
    \/ \E w \in Writers : StoreLock(w)
    \/ \E w \in Writers : StoreCancel(w)
    \/ \E w \in Writers : StoreStart(w)
    \/ \E w \in Writers : StoreUnlock(w)
    \/ \E w \in Writers : ThresholdCall(w) /\ st_buf'[w] \in SerialThresholds
    \/ \E w \in Writers : ThresholdLock(w)
    \/ \E w \in Writers : ThresholdUnlock(w)
    \/ \E w \in Writers : ModeCall(w) /\ st_buf'[w] \in SerialModes
    \/ \E w \in Writers : ModeLock(w)
    \/ \E w \in Writers : ModeInitCounter(w)
    \/ \E w \in Writers : ModeInitDirection(w)
    \/ \E w \in Writers : ModeWrite(w)
    \/ \E w \in Writers : ModeUnlock(w)

SpecSerial == Init /\ [][NextSerial]_vars

(***************************************************************************)
(* Producer, a consumer and a poller on a ring that wraps around and       *)
(* overflows                                                               *)
(***************************************************************************)
\* number of producer cycles explored on the wrapping ring
MaxRingCycles == 4

\* the read caller of this specification
RingReaders == {"r1"}

InitRing == Probe(NoNode) /\ Histories(FALSE)

NextRing ==
    \/ Fire(MaxRingCycles)
    \/ Generate \/ CompareNew \/ CompareLast \/ Push \/ Wake \/ Forward
    \/ \E r \in RingReaders : ReadCall(r)
    \/ \E r \in RingReaders : WaitCond(r)
    \/ \E r \in RingReaders : Prepare(r)
    \/ \E r \in RingReaders : Check(r)
    \/ \E r \in RingReaders : FinishWait(r)
    \/ \E r \in RingReaders : Schedule(r)
    \/ \E r \in RingReaders : Copy(r)
    \/ Poll

SpecRing == InitRing /\ [][NextRing]_vars

(***************************************************************************)
(* The producer in its stats_lock section next to a caller of mode_store   *)
(* who switches between NORMAL and RAMP                                    *)
(***************************************************************************)
\* number of producer cycles explored next to the mode switches
MaxRaceCycles == 2

\* the store caller of this specification and the texts written
RaceWriters == {"w1"}

RaceModes == { ModeText("ramp"), ModeText("normal") }

\* the device starts without a node, or in RAMP mode on a threshold below
\* the base temperature (the high-frequency example of the README)
RaceNodes ==
    { NoNode,
      DtNode(Present(Wide(0, 25)), Present(Wide(0, 24500)),
             Present(ModeText("ramp"))) }

InitRace == \E np \in RaceNodes : Probe(np) /\ Histories(TRUE)

NextRace ==
    \/ Fire(MaxRaceCycles)
    \/ Generate \/ RampLoadCounter \/ RampLoadDirection \/ RampStore
    \/ CompareNew \/ CompareLast \/ Push \/ Wake \/ Forward
    \/ \E w \in RaceWriters : ModeCall(w) /\ st_buf'[w] \in RaceModes
    \/ \E w \in RaceWriters : ModeLock(w)
    \/ \E w \in RaceWriters : ModeInitCounter(w)
    \/ \E w \in RaceWriters : ModeInitDirection(w)
    \/ \E w \in RaceWriters : ModeWrite(w)
    \/ \E w \in RaceWriters : ModeUnlock(w)

SpecRace == InitRace /\ [][NextRace]_vars

(***************************************************************************)
(* Probe on device-tree nodes that select mode = "ramp", then the producer *)
(* and a writer of mode                                                    *)
(***************************************************************************)
\* number of producer cycles explored after a start in RAMP mode
MaxAimedCycles == 2

\* the store caller of this specification
AimedWriters == {"w1"}

\* nodes with mode = "ramp": the high-frequency example of the README
\* (25 ms, threshold 24500), a threshold above the base temperature, and
\* no threshold at all
AimedNodes ==
    { DtNode(Present(Wide(0, 25)), Present(Wide(0, 24500)),
             Present(ModeText("ramp"))),
      DtNode(Absent(Wide(0, 0)), Present(Wide(0, 25400)),
             Present(ModeText("ramp"))),
      DtNode(Absent(Wide(0, 0)), Absent(Wide(0, 0)),
             Present(ModeText("ramp"))) }

InitAimed == \E np \in AimedNodes : Probe(np) /\ Histories(FALSE)

NextAimed ==
    \/ Fire(MaxAimedCycles)
    \/ Generate \/ RampLoadCounter \/ RampLoadDirection \/ RampStore
    \/ CompareNew \/ CompareLast \/ Push \/ Wake \/ Forward
    \/ \E w \in AimedWriters : ModeCall(w)
    \/ \E w \in AimedWriters : ModeLock(w)
    \/ \E w \in AimedWriters : ModeInitCounter(w)
    \/ \E w \in AimedWriters : ModeInitDirection(w)
    \/ \E w \in AimedWriters : ModeWrite(w)
    \/ \E w \in AimedWriters : ModeUnlock(w)

SpecAimed == InitAimed /\ [][NextAimed]_vars

(***************************************************************************)
(* The producer in NORMAL mode next to a caller of threshold_mC_store,     *)
(* step by step                                                            *)
(***************************************************************************)
\* number of producer cycles explored at constant temperature
MaxNormalCycles == 2

\* the store caller of this specification
NormalWriters == {"w1"}

NextNormal ==
    \/ Fire(MaxNormalCycles)
    \/ Generate \/ CompareNew \/ CompareLast \/ Push \/ Wake \/ Forward
    \/ \E w \in NormalWriters : ThresholdCall(w)
    \/ \E w \in NormalWriters : ThresholdLock(w)
    \/ \E w \in NormalWriters : ThresholdUnlock(w)

SpecNormal == Init /\ [][NextNormal]_vars

(***************************************************************************)
(* The contexts that take locks at once: the timer callback, a poller,     *)
(* stats_show and two configuration writers, one of whom switches the mode *)
(* to RAMP, under fair scheduling of whoever is inside an operation        *)
(***************************************************************************)
\* number of producer cycles explored with every context present
MaxLockCycles == 1

\* the caller of sampling_ms_store and the caller of mode_store, and the
\* texts they store
LockSamplingWriters == {"w1"}

LockModeWriters == {"w2"}

LockSampling == { <<"5", "0", "\n">> }

LockModes == { ModeText("ramp") }

\* the steps of stats_show
StatsStep == StatsReadUpdates \/ StatsReadAlerts \/ StatsReadErrors

\* the steps of a store after its parse
InsideStore(w) ==
    \/ StoreLock(w) \/ StoreCancel(w) \/ StoreStart(w) \/ StoreUnlock(w)
    \/ ModeLock(w) \/ ModeInitCounter(w) \/ ModeInitDirection(w)
    \/ ModeWrite(w) \/ ModeUnlock(w)

NextLocks ==
    \/ Fire(MaxLockCycles)
    \/ Generate \/ RampLoadCounter \/ RampLoadDirection \/ RampStore
    \/ CompareNew \/ CompareLast \/ Push \/ Wake \/ Forward
    \/ \E w \in LockSamplingWriters :
          StoreCall(w) /\ st_buf'[w] \in LockSampling
    \/ \E w \in LockSamplingWriters : StoreLock(w)
    \/ \E w \in LockSamplingWriters : StoreCancel(w)
    \/ \E w \in LockSamplingWriters : StoreStart(w)
    \/ \E w \in LockSamplingWriters : StoreUnlock(w)
    \/ \E w \in LockModeWriters :
          ModeCall(w) /\ st_buf'[w] \in LockModes
    \/ \E w \in LockModeWriters : ModeLock(w)
    \/ \E w \in LockModeWriters : ModeInitCounter(w)
    \/ \E w \in LockModeWriters : ModeInitDirection(w)
    \/ \E w \in LockModeWriters : ModeWrite(w)
    \/ \E w \in LockModeWriters : ModeUnlock(w)
    \/ StatsCall
    \/ StatsReadUpdates
    \/ StatsReadAlerts
    \/ StatsReadErrors
    \/ Poll

\* queued spinlocks and the mutex hand the lock to a waiter that keeps
\* waiting (strong fairness on the steps that acquire); a context that holds
\* a lock runs on
SpecLocks ==
    /\ Init
    /\ [][NextLocks]_vars
    /\ SF_vars(Callback)
    /\ SF_vars(StatsStep)
    /\ \A w \in LockSamplingWriters \cup LockModeWriters :
          SF_vars(InsideStore(w))

(***************************************************************************)
(* Every operation of the driver next to stats_show: producer cycles,      *)
(* reads, polls, and configuration writes that are accepted or rejected    *)
(***************************************************************************)
\* number of producer cycles explored next to every operation
MaxErrorCycles == 1

\* the read caller, whose reads return without sleeping (with a sample,
\* -EAGAIN, -EINVAL or -EFAULT), and the writer of this specification
ErrorReaders == {"r1"}

ErrorWriters == {"w1"}

\* texts that are rejected, for every attribute, and texts that are accepted
ErrorSampling == { <<"0">> }

ErrorThresholds ==
    { <<"2", "1", "4", "7", "4", "8", "3", "6", "4", "7">>, <<"h", "o", "t">> }

ErrorModes == { ModeText("ramp"), <<"R", "A", "M", "P">> }

InitErrors == Probe(NoNode) /\ Histories(FALSE)

NextErrors ==
    \/ Fire(MaxErrorCycles)
    \/ Generate \/ RampLoadCounter \/ RampLoadDirection \/ RampStore
    \/ CompareNew \/ CompareLast \/ Push \/ Wake \/ Forward
    \/ \E r \in ErrorReaders : ReadCall(r) /\ rd_pc'[r] # "wait_cond"
    \/ \E r \in ErrorReaders : Copy(r)
    \/ Poll
    \/ \E w \in ErrorWriters : StoreCall(w) /\ st_buf'[w] \in ErrorSampling
    \/ \E w \in ErrorWriters :
          ThresholdCall(w) /\ st_buf'[w] \in ErrorThresholds
    \/ \E w \in ErrorWriters : ThresholdLock(w)
    \/ \E w \in ErrorWriters : ThresholdUnlock(w)
    \/ \E w \in ErrorWriters : ModeCall(w) /\ st_buf'[w] \in ErrorModes
    \/ \E w \in ErrorWriters : ModeLock(w)
    \/ \E w \in ErrorWriters : ModeInitCounter(w)
    \/ \E w \in ErrorWriters : ModeInitDirection(w)
    \/ \E w \in ErrorWriters : ModeWrite(w)
    \/ \E w \in ErrorWriters : ModeUnlock(w)
    \/ StatsCall
    \/ StatsReadUpdates
    \/ StatsReadAlerts
    \/ StatsReadErrors

SpecErrors == InitErrors /\ [][NextErrors]_vars

(***************************************************************************)
(* The ring at its capacity: the producer first fills the ring up to one   *)
(* sample below SIMTEMP_BUFFER_SIZE while nobody has the device open, then *)
(* a non-blocking reader and a poller run beside the cycles that fill it,  *)
(* wrap head and overwrite the oldest samples.                             *)
(***************************************************************************)
MaxFullCycles == 2

\* successful reads made in this specification
MaxFullReads == 2

\* the read caller of this specification
FullReaders == {"r1"}

\* cycles the producer runs before the device is opened
FullLead == SIMTEMP_BUFFER_SIZE - 1

InitFull == Probe(NoNode) /\ Histories(FALSE)

Opened == update_count >= FullLead

NextFull ==
    \/ Fire(FullLead + MaxFullCycles)
    \/ Generate \/ CompareNew \/ CompareLast \/ Push \/ Wake \/ Forward
    \/ /\ Opened
       /\ Len(delivered) < MaxFullReads
       /\ \E r \in FullReaders : ReadCall(r) /\ rd_pc'[r] # "wait_cond"
    \/ \E r \in FullReaders : Copy(r)
    \/ Opened /\ Poll

SpecFull == InitFull /\ [][NextFull]_vars

(***************************************************************************)
(* The poller over the whole life of the ring: it polls the ring that      *)
(* probe left empty, before the first cycle has generated a sample, and    *)
(* again from the cycle that brings the ring to one sample below           *)
(* SIMTEMP_BUFFER_SIZE, beside the non-blocking reader and the cycles that *)
(* fill the ring, wrap head and overwrite the oldest samples.  The calls   *)
(* it has made are kept in poll_log.                                       *)
(***************************************************************************)
InitPoll == Probe(NoNode) /\ CallHistories(FALSE) /\ PollHistory(TRUE)

NextPoll ==
    \/ Fire(FullLead + MaxFullCycles)
    \/ Generate \/ CompareNew \/ CompareLast \/ Push \/ Wake \/ Forward
    \/ /\ Opened
       /\ Len(delivered) < MaxFullReads
       /\ \E r \in FullReaders : ReadCall(r) /\ rd_pc'[r] # "wait_cond"
    \/ \E r \in FullReaders : Copy(r)
    \/ (update_count = 0 \/ Opened) /\ Poll

SpecPoll == InitPoll /\ [][NextPoll]_vars

(***************************************************************************)
(* The overflow scenario on the ring of SIMTEMP_BUFFER_SIZE slots:         *)
(* SIMTEMP_BUFFER_SIZE + 1 producer cycles with no reader, then reads.     *)
(***************************************************************************)
\* number of reads explored after the ring has overflowed
OverflowReads == 2

OverflowCycles == SIMTEMP_BUFFER_SIZE + 1

InitOverflow == Probe(NoNode) /\ Histories(FALSE)

OverflowFilled == update_count = OverflowCycles /\ cb_pc = "idle"

NextOverflow ==
    \/ Fire(OverflowCycles)
    \/ Generate \/ CompareNew \/ CompareLast \/ Push \/ Wake \/ Forward
    \/ /\ OverflowFilled
       /\ Len(delivered) < OverflowReads
       /\ \E r \in Readers : ReadCall(r)
    \/ \E r \in Readers : Copy(r)

SpecOverflow == InitOverflow /\ [][NextOverflow]_vars

(***************************************************************************)
(* Properties                                                              *)
(***************************************************************************)
Range(f) == {f[i] : i \in DOMAIN f}

StrictlyIncreasing(f) ==
    \A i, j \in DOMAIN f : i < j => f[i] < f[j]

NoRepeat(f) ==
    \A i, j \in DOMAIN f : i # j => f[i] # f[j]

\* timestamps of the samples that nxp_simtemp_add_sample has stored so far
Pushed ==
    IF cb_pc \in {"compare_last", "push"} THEN 1..(ktime - 1) ELSE 1..ktime

\* C1: the samples returned by successful pops, in the order the pops take
\* effect, are in production order without repetition; while nothing has
\* been overwritten the pops return s1, s2, ... sN exactly.
C1_FifoOrder ==
    /\ StrictlyIncreasing(delivered)
    /\ Range(delivered) \subseteq Pushed
    /\ lost = {} => delivered = [i \in 1..Len(delivered) |-> i]

C1_Witness ==
    /\ Len(delivered) >= 3
    /\ lost = {}
    /\ buffer.count = 1

\* the timestamps of the samples readers hold between their pop and their
\* return
HoldsSample(r) == rd_pc[r] \in {"finish", "copy"}

InFlight == {rd_sample[r].timestamp_ns : r \in {q \in Readers : HoldsSample(q)}}

\* C2: no sample is returned by two read calls: the records handed to
\* callers are pairwise different pushed samples, different from every
\* sample a reader has popped and not yet returned, and two readers never
\* hold the same sample; so one push serves at most one blocked reader.
C2_ExactlyOnce ==
    /\ NoRepeat(received)
    /\ Range(received) \subseteq Pushed
    /\ Range(received) \cap InFlight = {}
    /\ \A r, q \in Readers :
          (r # q /\ HoldsSample(r) /\ HoldsSample(q))
             => rd_sample[r].timestamp_ns # rd_sample[q].timestamp_ns
    /\ Len(received) + Cardinality(InFlight) <= Cardinality(Pushed)

\* one push, one reader has returned it, the other is asleep in the wait
C2_Witness ==
    /\ ktime = 1
    /\ received = <<1>>
    /\ buffer.count = 0
    /\ \E r, q \in Readers :
          /\ r # q
          /\ rd_pc[r] = "idle" /\ rd_ret[r] = SAMPLE_SIZE
          /\ rd_pc[q] = "schedule" /\ task_state[q] = "INTERRUPTIBLE"
          /\ q \in read_wait

\* C3: a push on a full ring overwrites the oldest slot, advances tail by
\* one modulo the ring size and leaves count at the ring size; the push is
\* always possible; after SIMTEMP_BUFFER_SIZE + 1 pushes and no pop the
\* count is SIMTEMP_BUFFER_SIZE and the first pop returns sample 2.
C3_PushOnFull ==
    LET n == SIMTEMP_BUFFER_SIZE
    IN  (cb_pc = "push" /\ buffer.count = n /\ cb_pc' = "wake")
           => /\ buffer'.count = n
              /\ buffer'.tail = (buffer.tail + 1) % n
              /\ buffer.head = buffer.tail
              /\ Slot(buffer', buffer.tail) = cb_sample
              /\ LiveSeq(buffer') =
                    Append(Tail(LiveSeq(buffer)), cb_sample.timestamp_ns)

C3_AfterOverflow ==
    /\ cb_pc = "push" => ENABLED Push
    /\ (OverflowFilled /\ delivered = <<>>)
          => /\ buffer.count = SIMTEMP_BUFFER_SIZE
             /\ DOMAIN buffer.samples = 0..(SIMTEMP_BUFFER_SIZE - 1)
             /\ ktime = SIMTEMP_BUFFER_SIZE + 1
    /\ (OverflowFilled /\ delivered # <<>>) => delivered[1] = 2

C3_Overflow == [][C3_PushOnFull]_vars /\ []C3_AfterOverflow

C3_Witness ==
    /\ OverflowFilled
    /\ Len(delivered) = 1
    /\ delivered[1] = 2
    /\ buffer.count = SIMTEMP_BUFFER_SIZE - 1
    /\ \E l \in lost : l.timestamp_ns = 1

\* C4: every pushed sample is still in the ring, or was returned by exactly
\* one successful pop, or was overwritten by a push made on a full ring;
\* nothing is discarded by a push on a ring that is not full or by a pop.
C4_NoLossWithinCapacity ==
    /\ Range(delivered) \cup LiveSet(buffer)
          \cup {l.timestamp_ns : l \in lost} = Pushed
    /\ Len(delivered) + buffer.count + Cardinality(lost) = Cardinality(Pushed)
    /\ \A l \in lost :
          l.by = "push" /\ l.count = SIMTEMP_BUFFER_SIZE

C4_Witness ==
    /\ lost # {}
    /\ Len(delivered) >= 1
    /\ buffer.count >= 1
    /\ Cardinality(Pushed) = FullLead + MaxFullCycles

\* C5: once nxp_simtemp_cleanup_timer has returned, no sample is generated
\* and none is pushed.
C5_NoSampleAfterStop ==
    [][rm_pc # "live" =>
          (update_count' = update_count /\ Pushed' = Pushed)]_vars

\* the numeral of a written text: an optional '+' and one final newline
\* are not part of it, nor are leading zeros
RECURSIVE StripZeros(_)
StripZeros(t) ==
    IF Len(t) > 1 /\ t[1] = "0" THEN StripZeros(Tail(t)) ELSE t

\* the digits of an unsigned text: final newline and leading zeros removed
Unsigned(a) ==
    StripZeros(IF Len(a) >= 1 /\ a[Len(a)] = "\n"
               THEN SubSeq(a, 1, Len(a) - 1) ELSE a)

Numeral(buf) ==
    Unsigned(IF Len(buf) >= 1 /\ buf[1] = "+" THEN Tail(buf) ELSE buf)

IsNumeral(t) == Len(t) >= 1 /\ \A i \in 1..Len(t) : IsDigit(t[i])

RECURSIVE NumeralValue(_)
NumeralValue(t) ==
    IF Len(t) = 0 THEN 0
    ELSE 10 * NumeralValue(SubSeq(t, 1, Len(t) - 1)) + DigitVal(t[Len(t)])

\* the text denotes a sampling interval of 1 .. 10000 ms
ValidInterval(buf) ==
    LET t == Numeral(buf)
    IN  /\ IsNumeral(t)
        /\ Len(t) <= 5
        /\ NumeralValue(t) >= 1
        /\ NumeralValue(t) <= 10000

C6_Outcome ==
    \A w \in TimerWriters :
       /\ st_ret[w] < 0 => ~ValidInterval(st_buf[w])
       /\ (st_pc[w] # "idle" \/ st_ret[w] > 0) => ValidInterval(st_buf[w])
       /\ st_pc[w] = "unlock" =>
             /\ sampling_ms_show = Append(Numeral(st_buf[w]), "\n")
             /\ sampling_ms = NumeralValue(Numeral(st_buf[w]))

C6_RejectedUnchanged ==
    \A w \in TimerWriters :
       (/\ <<st_buf[w], st_ret[w]>> # <<st_buf'[w], st_ret'[w]>>
        /\ st_ret'[w] < 0)
          => /\ st_pc'[w] = "idle"
             /\ UNCHANGED <<sampling_ms, period, timer_state,
                            timer_interval, fired_interval>>

\* C6: sampling_ms_store rejects every text that does not denote an
\* interval of 1 .. 10000 ms with an error and leaves sampling_ms, period
\* and the timer as they were; it accepts the others, and sampling_ms_show
\* then returns the written value.
C6_Validation == []C6_Outcome /\ [][C6_RejectedUnchanged]_vars

C6_Witness ==
    /\ st_pc["w1"] = "unlock"
    /\ st_buf["w1"] = <<"1", "0", "0", "0", "0">>
    /\ sampling_ms_show = <<"1", "0", "0", "0", "0", "\n">>
    /\ timer_state = "enqueued"

\* C7: when a successful sampling_ms_store(v) returns, the one pending
\* expiry is the one armed v milliseconds after the re-arm (or that expiry
\* has already run the callback); nothing armed under the old interval is
\* left.
C7_RearmedWithNewInterval ==
    \A w \in Writers :
       (st_pc[w] = "unlock" /\ rm_pc = "live") =>
          LET v == WideMul(st_val[w], NSEC_PER_MSEC)
          IN  \/ /\ timer_state = "enqueued"
                 /\ cb_pc = "idle"
                 /\ timer_interval = v
              \/ /\ timer_state = "inactive"
                 /\ cb_pc # "idle"
                 /\ fired_interval = v

\* C8: the timer period is exactly sampling_ms x 1,000,000 ns.
C8_PeriodExact == period = WideMul(sampling_ms, NSEC_PER_MSEC)

\* the flags of a sample contain NEW_SAMPLE
NewSample(s) == s.flags % 2 = FLAG_NEW_SAMPLE

C9_CycleFlags ==
    (cb_pc = "compare_last" /\ cb_pc' = "push") =>
       /\ NewSample(cb_sample')
       /\ ThresholdCrossed(cb_sample') <=>
             ((cb_temp > threshold_mC) # (last_temp_mC > threshold_mC))
       /\ last_temp_mC' = cb_temp

\* C9: every produced sample has NEW_SAMPLE, and THRESHOLD_CROSSED exactly
\* when (new > threshold) differs from (previous > threshold); the previous
\* temperature starts at 25000 and becomes the new one in every cycle.
C9_Detector ==
    /\ [][C9_CycleFlags]_vars
    /\ [](update_count = 0 => last_temp_mC = BASE_TEMP_MC)
    /\ [](\A i \in DOMAIN buffer.samples :
             NewSample(Slot(buffer, i)))

\* reader r is inside the wait of a blocking read
Waiting(r) == rd_pc[r] \in {"wait_cond", "prepare", "check", "schedule"}

\* reader r sleeps: it has called schedule() and nobody has woken it
Asleep(r) == rd_pc[r] = "schedule" /\ task_state[r] = "INTERRUPTIBLE"

C10_NoReturnWithoutPop ==
    /\ Range(received) \subseteq Range(delivered)
    /\ InFlight \subseteq Range(delivered)
    /\ \A r \in Readers :
          /\ Waiting(r) => (rd_ret[r] = 0 /\ ~rd_req[r].nonblock)
          /\ (Asleep(r) /\ buffer.count > 0) => cb_pc = "wake"

C10_LeavesWaitByPopping ==
    \A r \in Readers :
       /\ (Waiting(r) /\ HoldsSample(r)') =>
             /\ rd_pc[r] \in {"wait_cond", "check"}
             /\ rd_pc'[r] = IF rd_pc[r] = "check" THEN "finish" ELSE "copy"
             /\ buffer.count > 0
             /\ buffer'.count = buffer.count - 1
             /\ rd_sample'[r] = Slot(buffer, buffer.tail)
             /\ delivered' = Append(delivered, rd_sample'[r].timestamp_ns)
       /\ (Waiting(r) /\ ~Waiting(r)') => HoldsSample(r)'
       /\ rd_pc[r] = "finish" =>
             (rd_pc'[r] \in {"finish", "copy"} /\ rd_sample'[r] = rd_sample[r])
       /\ (rd_pc[r] = "copy" /\ rd_pc'[r] = "idle" /\ rd_req[r].buf_ok) =>
             /\ rd_ret'[r] = SAMPLE_SIZE
             /\ received' = Append(received, rd_sample[r].timestamp_ns)

C10_EventuallyServed ==
    \A r \in Readers :
       (Waiting(r) /\ rd_req[r].buf_ok /\ update_count < MaxLiveCycles)
          ~> (\/ rd_pc[r] = "idle" /\ rd_ret[r] = SAMPLE_SIZE
              \/ \E q \in Readers \ {r} : HoldsSample(q))

\* C10: a blocking read on an empty ring returns no data before a sample is
\* there; it leaves its wait only by popping a sample itself, and returns
\* that one sample; a sleeping reader is never left asleep next to a
\* non-empty ring once the producer's wake-up has run; and while the
\* producer still fires and no other reader takes the samples, the blocked
\* reader eventually returns a sample.
C10_BlockingRead ==
    /\ []C10_NoReturnWithoutPop
    /\ [][C10_LeavesWaitByPopping]_vars
    /\ C10_EventuallyServed

\* a reader that was queued on read_wait has popped a sample and is about to
\* return it, while the other reader is still asleep
C10_Witness ==
    \E r, q \in Readers :
       /\ r # q
       /\ rd_pc[r] = "copy" /\ rd_req[r].queued /\ rd_req[r].buf_ok
       /\ rd_sample[r].timestamp_ns = ktime
       /\ Asleep(q)

\* a step in which reader r calls nxp_simtemp_read; its arguments are then
\* rd_log'.call[r]
CallStep(r) ==
    /\ rd_pc[r] = "idle"
    /\ <<rd_pc[r], rd_ret[r], rd_log.call[r]>>' #
          <<rd_pc[r], rd_ret[r], rd_log.call[r]>>

\* a call of read with O_NONBLOCK and room for a record, on an empty ring
C11_EmptyNonBlocking(r) ==
    /\ CallStep(r)
    /\ rd_log'.call[r].nonblock
    /\ rd_log'.call[r].count >= SAMPLE_SIZE
    /\ buffer.count = 0

C11_Step ==
    \A r \in Readers :
       C11_EmptyNonBlocking(r) =>
          /\ rd_ret'[r] = -EAGAIN
          /\ rd_pc'[r] = "idle"
          /\ task_state' = task_state /\ read_wait' = read_wait
          /\ buffer' = buffer
          /\ statVars' = statVars
          /\ <<delivered, lost, received>>' = <<delivered, lost, received>>

\* C11: a non-blocking read (of at least one record) on an empty ring
\* returns -EAGAIN in the same step, is never queued or put to sleep, and
\* leaves head, tail, count, the slots and the four statistics as they
\* were; -EAGAIN is returned on an empty ring only.
C11_EmptyNonBlockingRead ==
    /\ [][C11_Step]_vars
    /\ [](\A r \in Readers :
            (rd_pc[r] # "idle" /\ rd_req[r].nonblock) => rd_pc[r] = "copy")
    /\ [][\A r \in Readers :
            (CallStep(r) /\ rd_ret'[r] = -EAGAIN) => buffer.count = 0]_vars

\* after samples were produced and drained, a reader has got -EAGAIN from a
\* non-blocking call on the empty ring
C11_Witness ==
    \E r \in Readers :
       /\ rd_pc[r] = "idle" /\ rd_ret[r] = -EAGAIN
       /\ rd_log.call[r].nonblock
       /\ buffer.count = 0 /\ buffer.head # 0
       /\ Len(delivered) > 0

C12_Step ==
    /\ \A r \in Readers :
          /\ (CallStep(r) /\ rd_log'.call[r].count < SAMPLE_SIZE) =>
                /\ rd_ret'[r] = -EINVAL
                /\ rd_pc'[r] = "idle"
                /\ buffer' = buffer
                /\ delivered' = delivered
          /\ (CallStep(r) /\ rd_log'.call[r].count >= SAMPLE_SIZE) =>
                rd_ret'[r] # -EINVAL
          /\ (rd_pc[r] = "copy" /\ rd_pc'[r] = "idle") =>
                /\ rd_log.call[r].count >= SAMPLE_SIZE
                /\ rd_ret'[r] \in {SAMPLE_SIZE, -EFAULT}
                /\ buffer' = buffer
                /\ rd_ret'[r] = SAMPLE_SIZE =>
                      received' = Append(received, rd_sample[r].timestamp_ns)
          /\ (rd_ret'[r] = SAMPLE_SIZE /\ rd_ret[r] # SAMPLE_SIZE) =>
                rd_pc[r] = "copy"
          /\ (rd_pc[r] = "finish" /\ rd_pc'[r] # "finish") =>
                /\ rd_pc'[r] = "copy"
                /\ rd_sample'[r] = rd_sample[r]
                /\ buffer' = buffer
          /\ (~HoldsSample(r) /\ HoldsSample(r)') =>
                /\ buffer.count > 0
                /\ buffer'.count = buffer.count - 1
                /\ buffer'.tail = (buffer.tail + 1) % SIMTEMP_BUFFER_SIZE
                /\ buffer'.head = buffer.head
                /\ rd_sample'[r] = Slot(buffer, buffer.tail)
    /\ buffer'.count < buffer.count =>
          \E r \in Readers : ~HoldsSample(r) /\ HoldsSample(r)'

\* C12: a read of fewer than 16 bytes returns -EINVAL and pops nothing; a
\* read of 16 bytes or more is never refused for its size, and a call that
\* succeeds returns 16, hands over the one record it popped, and popped it
\* in one step that took count down by exactly 1.
C12_OneRecordPerRead ==
    [][C12_Step]_vars

\* one reader got one record from a 64-byte read while another sample
\* stayed buffered, and the other reader's 15-byte read was refused
C12_Witness ==
    \E r, q \in Readers :
       /\ rd_pc[r] = "idle" /\ rd_ret[r] = SAMPLE_SIZE
       /\ rd_log.call[r].count = 4 * SAMPLE_SIZE
       /\ buffer.count > 0
       /\ rd_ret[q] = -EINVAL /\ rd_log.call[q].count = SAMPLE_SIZE - 1

C13_Step ==
    poll_ret' # poll_ret =>
       /\ (poll_ret'.mask = POLLIN + POLLRDNORM) <=> (buffer.count > 0)
       /\ poll_ret'.mask \in {0, POLLIN + POLLRDNORM}
       /\ buffer' = buffer
       /\ statVars' = statVars
       /\ <<delivered, lost, received>>' = <<delivered, lost, received>>
       /\ rdVars' = rdVars

\* C13: a poll call reports POLLIN | POLLRDNORM exactly when count > 0 at
\* its check, on the empty ring as on a ring with samples and on the full
\* ring, and changes neither head, tail, count, the slots, the statistics
\* nor any reader, however many poll calls are made.
C13_PollReadiness ==
    /\ [][C13_Step]_vars
    /\ [](\A call \in poll_log.seen :
             call[2] = IF call[1] THEN POLLIN + POLLRDNORM ELSE 0)

\* poll has reported no readiness on the empty ring and readiness on a ring
\* that held samples, the last time on the full ring whose head equals its
\* tail
C13_Witness ==
    /\ poll_log.seen = { <<FALSE, 0>>, <<TRUE, POLLIN + POLLRDNORM>> }
    /\ poll_ret.mask = POLLIN + POLLRDNORM
    /\ buffer.count = SIMTEMP_BUFFER_SIZE
    /\ buffer.head = buffer.tail

\* the samples stamped after the last completed switch into RAMP, oldest
\* first (in SpecRamp the ring still holds every sample produced)
SinceSwitch ==
    LET n == SIMTEMP_BUFFER_SIZE
        live == [i \in 1..buffer.count |->
                    Slot(buffer, (buffer.tail + i - 1) % n)]
    IN  SelectSeq(live, LAMBDA x : x.timestamp_ns > ramp_at.at)

\* one of the first n samples after the switch carries THRESHOLD_CROSSED
CrossedWithin(n) ==
    \E i \in 1..n : i <= Len(SinceSwitch) /\ ThresholdCrossed(SinceSwitch[i])

\* C14: threshold 24800 written, then NORMAL -> RAMP: of the samples stamped
\* after the switch, the first or the second carries THRESHOLD_CROSSED.
C14_CrossingWithinTwo ==
    (ramp_at.at >= 0 /\ threshold_mC = 24800 /\ Len(SinceSwitch) >= 2)
       => CrossedWithin(2)

\* a cycle was in flight at the switch: the first sample after it is the
\* NORMAL one, the second one is the first of the ramp and is flagged
C14_Witness ==
    /\ ramp_at.at >= 0 /\ threshold_mC = 24800
    /\ Len(SinceSwitch) >= 2
    /\ SinceSwitch[1].temp_mC = BASE_TEMP_MC
    /\ ~ThresholdCrossed(SinceSwitch[1])
    /\ SinceSwitch[2].temp_mC = 24800
    /\ ThresholdCrossed(SinceSwitch[2])

\* the thresholds the ramp reaches
InReach(t) == 23000 <= t /\ t < 27000

\* C15 as stated: threshold in reach written, then NORMAL -> RAMP: one of
\* the first 10 samples after the switch carries THRESHOLD_CROSSED.
C15_CrossingWithinTen ==
    (ramp_at.at >= 0 /\ InReach(threshold_mC) /\ Len(SinceSwitch) >= 10)
       => CrossedWithin(10)

\* C15 amended: one of the first 10 samples generated in RAMP mode carries
\* THRESHOLD_CROSSED; a sample generated in NORMAL mode may still be stamped
\* after the switch, so the flagged sample is among the first 11 after it.
C15_CrossingWithinEleven ==
    /\ (ramp_at.at >= 0 /\ InReach(threshold_mC) /\ Len(SinceSwitch) >= 11)
          => CrossedWithin(11)
    /\ (ramp_at.at >= 0 /\ InReach(threshold_mC) /\ Len(SinceSwitch) >= 10
          /\ SinceSwitch[1].temp_mC # BASE_TEMP_MC)
          => CrossedWithin(10)

\* threshold 23000: ten samples after the switch without a crossing, the
\* eleventh (the tenth of the ramp, 23000 mC) flagged
C15_Witness ==
    /\ ramp_at.at >= 0 /\ threshold_mC = 23000
    /\ Len(SinceSwitch) >= 11
    /\ ~CrossedWithin(10)
    /\ SinceSwitch[11].temp_mC = 23000
    /\ ThresholdCrossed(SinceSwitch[11])

\* a step in which writer w calls mode_store on the text st_buf'[w]
ModeStep(w) ==
    /\ st_pc[w] = "idle"
    /\ st_buf'[w] \in ModeInputs
    /\ <<st_buf[w], st_ret[w], st_pc[w]>>' # <<st_buf[w], st_ret[w], st_pc[w]>>

\* the positions of a mode_store call between its parse and its return
InModeStore(w) ==
    st_pc[w] \in {"m_lock", "m_counter", "m_direction", "m_write", "m_unlock"}

\* a step of the mode_store call of writer w, the call itself included
ModeMoved(w) == (ModeStep(w) \/ InModeStore(w)) /\ st_pc'[w] # st_pc[w]

\* the step in which mode_store returns the length of the text
ModeReturns(w) == st_pc[w] = "m_unlock" /\ st_pc'[w] = "idle"

C16_Step ==
    \A w \in Writers :
       /\ (st_pc[w] = "m_lock" /\ st_pc'[w] # "m_lock") =>
             (st_pc'[w] \in {"m_counter", "m_direction"}
                 <=> (ParsedMode(w) = "ramp" /\ mode # "ramp"))
       /\ (st_pc[w] = "m_counter" /\ st_pc'[w] # "m_counter") =>
             /\ ramp_counter' = 0
             /\ ramp_direction' = ramp_direction
       /\ (st_pc[w] = "m_direction" /\ st_pc'[w] # "m_direction") =>
             /\ ramp_counter' = ramp_counter
             /\ ramp_direction' =
                   (IF threshold_mC < BASE_TEMP_MC THEN -1 ELSE 1)
             /\ threshold_mC = 23000 => ramp_direction' = -1
             /\ threshold_mC = 27000 => ramp_direction' = 1
       /\ (ModeMoved(w) /\ st_pc[w] \notin {"m_counter", "m_direction"}) =>
             /\ ramp_counter' = ramp_counter
             /\ ramp_direction' = ramp_direction

\* C16: a mode_store of "ramp" that finds the mode NORMAL or NOISY writes 0
\* to ramp_counter and then -1 to ramp_direction if threshold_mC < 25000,
\* else +1; every other mode_store, and every other step of this one,
\* leaves both as they were.
C16_RampInit ==
    [][C16_Step]_vars

\* the mode was taken out of RAMP and the values of the ramp episode stay:
\* the counter the producer left and the downward direction of threshold
\* 23000
C16_Witness ==
    /\ mode = "normal"
    /\ ramp_counter > 0 /\ ramp_direction = -1
    /\ threshold_mC = 23000
    /\ \E w \in Writers : st_buf[w] = ModeText("normal") /\ st_ret[w] > 0

\* the texts mode_store is to accept: a mode name, or a mode name and one
\* newline
ModeNameText(buf) ==
    \E m \in Modes : buf = ModeText(m) \/ buf = ModeText(m) \o <<"\n">>

C17_Step ==
    \A w \in Writers :
       /\ ModeStep(w) =>
             IF ModeNameText(st_buf'[w])
             THEN InModeStore(w)'
             ELSE /\ st_ret'[w] = -EINVAL
                  /\ st_pc'[w] = "idle"
                  /\ mode' = mode
                  /\ ramp_counter' = ramp_counter
                  /\ ramp_direction' = ramp_direction
       /\ ModeReturns(w) =>
             /\ st_ret'[w] = Len(st_buf[w])
             /\ mode_show' \in {st_buf[w], st_buf[w] \o <<"\n">>}

\* C17: mode_store accepts exactly "normal", "noisy" and "ramp", each with
\* or without one newline after it, and mode_show then returns the name
\* written; every other text is rejected with -EINVAL and leaves mode,
\* ramp_direction and ramp_counter as they were.
C17_ModeValidation ==
    [][C17_Step]_vars

\* no store has been called so far
NoWriteYet ==
    \A w \in Writers :
       st_pc[w] = "idle" /\ st_buf[w] = <<>> /\ st_ret[w] = 0

\* the ring and the statistics as probe leaves them
FreshDevice ==
    /\ buffer.head = 0 /\ buffer.tail = 0 /\ buffer.count = 0
    /\ update_count = 0 /\ alert_count = 0
    /\ error_count = 0 /\ last_error = 0

C18_DefaultConfig ==
    /\ sampling_ms = 100 /\ threshold_mC = 45000 /\ mode = "normal"
    /\ sampling_ms_show = <<"1", "0", "0", "\n">>
    /\ threshold_mC_show = <<"4", "5", "0", "0", "0", "\n">>
    /\ mode_show = <<"n", "o", "r", "m", "a", "l", "\n">>

\* C18: started without a device-tree node, the device has sampling_ms 100,
\* threshold_mC 45000, mode NORMAL, an empty ring with head = tail = count
\* = 0 and all four statistics at 0; until the first write the three show
\* functions return these configuration values.
C18_Defaults ==
    /\ of_node = NoNode => (FreshDevice /\ C18_DefaultConfig)
    /\ []((of_node = NoNode /\ NoWriteYet) => C18_DefaultConfig)

\* no node, no write so far, and the producer has pushed a sample
C18_Witness ==
    /\ of_node = NoNode /\ NoWriteYet
    /\ update_count > 0 /\ buffer.count > 0
    /\ C18_DefaultConfig

\* the value a u32 cell denotes lies in 1..10000
CellInRange(c) == c.hi = 0 /\ 1 <= c.lo /\ c.lo <= 10000

\* the configuration the device tree asks for, defaults where it asks for
\* nothing valid
C19_Expected ==
    /\ sampling_ms =
          IF of_node.present /\ of_node.sampling.has
             /\ CellInRange(of_node.sampling.val)
          THEN of_node.sampling.val.lo ELSE 100
    /\ threshold_mC =
          IF of_node.present /\ of_node.threshold.has
          THEN S32OfU32(of_node.threshold.val) ELSE 45000
    /\ mode =
          IF of_node.present /\ of_node.mode.has
             /\ \E m \in Modes : ModeText(m) = of_node.mode.val
          THEN CHOOSE m \in Modes : ModeText(m) = of_node.mode.val
          ELSE "normal"
    /\ sampling_ms_show = Append(FormatU(sampling_ms), "\n")
    /\ mode_show = Append(ModeText(mode), "\n")

\* the device-tree cell passes startup validation exactly when the same
\* value passes the range test of sampling_ms_store
C19_SameRules ==
    of_node.sampling.has =>
       (DtSamplingValid(of_node.sampling.val)
           <=> ~OutOfRange(of_node.sampling.val))

\* probe has gone through: timer armed, sysfs and device present
C19_Started ==
    timer_state = "enqueued" /\ rm_pc = "live" /\ FreshDevice

\* C19: whatever the device tree holds, probe succeeds; a sampling-ms
\* outside 1..10000 or an unknown mode string leaves the default, a missing
\* node or property leaves the default, valid overrides are the values in
\* effect until the first write, and sampling-ms is accepted exactly when
\* sampling_ms_store would accept the value.
C19_Overrides ==
    /\ C19_Started /\ C19_Expected
    /\ [](C19_SameRules /\ (NoWriteYet => C19_Expected))

\* sampling-ms 10001 was ignored while mode noisy and threshold 35000 of the
\* same node took effect, and the producer has run on them
C19_Witness ==
    /\ of_node.present /\ of_node.sampling.has
    /\ of_node.sampling.val = Wide(0, SAMPLING_MS_MAX + 1)
    /\ of_node.mode.has /\ of_node.mode.val = ModeText("noisy")
    /\ sampling_ms = 100 /\ mode = "noisy" /\ threshold_mC = 35000
    /\ NoWriteYet /\ update_count > 0

\* the four values a completed stats_show call returns
StatsReturned ==
    <<ss_val.updates, ss_val.alerts, ss_val.errors, ss_val.last_error>>

\* C20: the four values returned by a stats_show call are the four
\* statistics as they were, together, at one of the instants of the call,
\* also when producer cycles ran next to it.
C20_ConsistentSnapshot ==
    (ss_pc = "idle" /\ ss_val.inst # <<>>) =>
       \E i \in 1..Len(ss_val.inst) : ss_val.inst[i] = StatsReturned

\* a call during which alert_count went up between its reads: what it
\* returns is not what held at its first read
C20_Witness ==
    /\ ss_pc = "idle" /\ Len(ss_val.inst) = 3
    /\ ss_val.inst[1] # ss_val.inst[3]
    /\ StatsReturned # ss_val.inst[1]
    /\ ss_val.alerts > 0

\* the step in which reader r's call of read returns -ERESTARTSYS
Cancelled(r) ==
    rd_pc[r] # "idle" /\ rd_pc'[r] = "idle" /\ rd_ret'[r] = -ERESTARTSYS

C21_Step ==
    \A r \in Readers :
       Cancelled(r) =>
          /\ rd_pc[r] = "check" /\ ~rd_req[r].nonblock
          /\ sig_pending[r] /\ rd_req[r].intr
          /\ rd_sample[r] = ZeroSample /\ rd_sample'[r] = ZeroSample
          /\ buffer' = buffer
          /\ <<delivered, lost, received>>' = <<delivered, lost, received>>
          /\ r \notin read_wait'
          /\ \A q \in Readers \ {r} :
                /\ (q \in read_wait') <=> (q \in read_wait)
                /\ task_state'[q] = task_state[q]
                /\ rd_pc'[q] = rd_pc[q]

C21_WaitersIntact ==
    \A q \in Readers :
       /\ Asleep(q) => q \in read_wait
       /\ (Asleep(q) /\ buffer.count > 0) => cb_pc = "wake"
       /\ (rd_pc[q] = "idle" /\ rd_ret[q] = -ERESTARTSYS) => q \notin read_wait

C21_OthersServed ==
    \A q \in Readers :
       (Waiting(q) /\ rd_req[q].buf_ok /\ update_count < MaxCancelCycles)
          ~> (\/ rd_pc[q] = "idle" /\ rd_ret[q] = SAMPLE_SIZE
              \/ rd_pc[q] = "idle" /\ rd_ret[q] = -ERESTARTSYS
              \/ \E p \in Readers \ {q} : HoldsSample(p))

\* C21: a blocking read whose wait is interrupted by a signal returns
\* -ERESTARTSYS without having popped a sample, leaves the ring as it was
\* and takes only itself off the wait queue; a reader asleep on the device
\* stays queued and is woken by every later push, and while the producer
\* still fires it eventually returns a sample unless it is interrupted
\* itself or another reader takes the sample.
C21_CancelledReader ==
    /\ [][C21_Step]_vars
    /\ []C21_WaitersIntact
    /\ C21_OthersServed

\* one reader's wait was interrupted and its call has returned while the
\* other reader is still asleep on the wait queue, with a producer cycle
\* still to come
C21_Witness ==
    \E r, q \in Readers :
       /\ r # q
       /\ rd_pc[r] = "idle" /\ rd_ret[r] = -ERESTARTSYS
       /\ Asleep(q) /\ q \in read_wait
       /\ buffer.count = 0 /\ update_count < MaxCancelCycles

\* the digits of a written signed text: one sign, '-' or '+', and the
\* final newline removed
Magnitude(buf) ==
    IF Len(buf) >= 1 /\ buf[1] = "-" THEN Unsigned(Tail(buf)) ELSE Numeral(buf)

Negative(buf) == Len(buf) >= 1 /\ buf[1] = "-"

\* t <= u for two digit sequences of the same length
RECURSIVE DigitsLeq(_, _)
DigitsLeq(t, u) ==
    IF Len(t) = 0 THEN TRUE
    ELSE IF DigitVal(t[1]) # DigitVal(u[1]) THEN DigitVal(t[1]) < DigitVal(u[1])
    ELSE DigitsLeq(Tail(t), Tail(u))

INT_MAX_Text == <<"2", "1", "4", "7", "4", "8", "3", "6", "4", "7">>
INT_MIN_Text == <<"2", "1", "4", "7", "4", "8", "3", "6", "4", "8">>

\* the text denotes an integer of -2^31 .. 2^31 - 1
DenotesS32(buf) ==
    LET t == Magnitude(buf)
    IN  /\ IsNumeral(t)
        /\ \/ Len(t) < 10
           \/ /\ Len(t) = 10
              /\ DigitsLeq(t, IF Negative(buf) THEN INT_MIN_Text
                              ELSE INT_MAX_Text)

\* the integer such a text denotes
S32Value(buf) ==
    LET t == Magnitude(buf)
    IN  IF Negative(buf)
        THEN (IF t = INT_MIN_Text THEN (-2147483647) - 1
              ELSE 0 - NumeralValue(t))
        ELSE NumeralValue(t)

\* a step in which writer w calls threshold_mC_store on the text st_buf'[w]
ThresholdStep(w) ==
    /\ st_pc[w] = "idle"
    /\ st_buf'[w] \in ThresholdInputs
    /\ <<st_buf[w], st_ret[w], st_pc[w]>>' # <<st_buf[w], st_ret[w], st_pc[w]>>

\* the step in which threshold_mC_store returns the length of the text
ThresholdReturns(w) == st_pc[w] = "t_unlock" /\ st_pc'[w] = "idle"

C22_StoreStep ==
    \A w \in Writers :
       /\ ThresholdStep(w) =>
             IF DenotesS32(st_buf'[w])
             THEN st_pc'[w] = "t_lock" /\ st_val'[w] = S32Value(st_buf'[w])
             ELSE /\ st_ret'[w] < 0
                  /\ st_pc'[w] = "idle"
                  /\ threshold_mC' = threshold_mC
       /\ ThresholdReturns(w) =>
             /\ st_ret'[w] = Len(st_buf[w])
             /\ threshold_mC' = S32Value(st_buf[w])
             /\ threshold_mC_show' =
                   (IF Negative(st_buf[w]) THEN <<"-">> ELSE <<>>)
                      \o Magnitude(st_buf[w]) \o <<"\n">>

\* the comparison of a cycle during which no store was made is made on the
\* threshold in effect when the cycle started
C22_CycleStep ==
    /\ Fire(MaxThresholdCycles) =>
          /\ cyc_log'.threshold = threshold_mC
          /\ \A w \in Writers :
                st_ret[w] > 0 => threshold_mC = S32Value(st_buf[w])
    /\ (cb_pc = "compare_last" /\ cb_pc' = "push" /\ ~cyc_log.stored) =>
          LET v == cyc_log.threshold
          IN  ThresholdCrossed(cb_sample') <=>
                 ((cb_temp > v) # (last_temp_mC > v))

\* C22: threshold_mC_store accepts exactly the texts that denote a signed
\* 32-bit integer, whatever its value, and stores that integer; a producer
\* cycle that starts after the store has returned, and is not overtaken by
\* a further store, compares both temperatures with the stored value.
C22_ThresholdTakesEffect ==
    [][C22_StoreStep /\ C22_CycleStep]_vars

\* -5 was stored, then a cycle started and flagged no crossing although its
\* temperature is below the threshold 24500 of the startup configuration
C22_Witness ==
    /\ cb_pc = "push" /\ ~cyc_log.stored
    /\ cyc_log.threshold = -5 /\ threshold_mC = -5
    /\ st_buf["w1"] = <<"-", "5">> /\ st_ret["w1"] = 2
    /\ cb_temp = 24000 /\ ~ThresholdCrossed(cb_sample)
    /\ update_count = 1

\* the callback returns HRTIMER_RESTART: its last step leaves the timer
\* queued
C23_Rearms ==
    (cb_pc = "forward" /\ cb_pc' = "idle") => timer_state' = "enqueued"

\* the timer is off the queue only while its callback runs or while a
\* sampling_ms_store is between its hrtimer_cancel and its hrtimer_start
C23_NeverLeftUnarmed ==
    timer_state = "inactive" =>
       (cb_pc # "idle" \/ \E w \in Writers : st_pc[w] = "start")

\* every step of a cycle in progress can be taken whatever the ring holds
\* and whatever readers and writers do, except that the cycle waits for
\* no one
C23_CycleNeverBlocked ==
    /\ cb_pc = "generate" => ENABLED Generate
    /\ cb_pc = "compare_new" => ENABLED CompareNew
    /\ cb_pc = "compare_last" => ENABLED CompareLast
    /\ cb_pc = "push" => ENABLED Push
    /\ cb_pc = "wake" => ENABLED Wake
    /\ cb_pc = "forward" => ENABLED Forward

\* C23 as stated: producer cycles keep occurring whatever readers and
\* writers do: as long as the explored number of cycles is not reached, a
\* further cycle is eventually run.
C23_CyclesForever ==
    (update_count < MaxForeverCycles) ~> (update_count = MaxForeverCycles)

\* C23 amended: the callback re-arms the timer on every path, the timer is
\* never left unarmed, no step of a cycle waits for a reader or writer, and
\* cycles keep occurring unless sampling_ms_store cancels and re-arms the
\* timer again and again.
C23_CyclesUnlessRearmed ==
    /\ [][C23_Rearms]_vars
    /\ [](C23_NeverLeftUnarmed /\ C23_CycleNeverBlocked)
    /\ \/ []<><<\E w \in Writers : StoreCancel(w)>>_vars
       \/ <>(update_count = MaxForeverCycles)

\* the last cycle has pushed and re-armed the timer after a
\* sampling_ms_store had cancelled and restarted it, with nothing consumed
C23_Witness ==
    /\ update_count = MaxForeverCycles /\ cb_pc = "idle"
    /\ timer_state = "enqueued"
    /\ buffer.count = MaxForeverCycles /\ delivered = <<>>
    /\ st_ret["w1"] > 0 /\ st_pc["w1"] = "idle"
    /\ timer_interval = PeriodOf(sampling_ms) /\ sampling_ms = 50

\* the step in which the timer callback runs the NORMAL or the NOISY branch
\* of nxp_simtemp_generate_temp, start to end
GenerateStep == cb_pc = "generate" /\ cb_pc' = "compare_new"

\* the step in which the RAMP branch stores its results and the callback
\* leaves nxp_simtemp_generate_temp
RampStoreStep == cb_pc = "ramp_store" /\ cb_pc' = "compare_new"

\* the callback is inside nxp_simtemp_generate_temp
InGenerate ==
    cb_pc \in {"generate", "ramp_load", "ramp_direction", "ramp_store"}

\* the step in which the callback leaves nxp_simtemp_generate_temp
GenerateReturns == GenerateStep \/ RampStoreStep

C24_Step ==
    GenerateStep =>
       /\ mode = "normal" =>
             /\ cb_temp' = 25000
             /\ ramp_counter' = ramp_counter
             /\ ramp_direction' = ramp_direction
       /\ mode = "noisy" =>
             /\ 24000 <= cb_temp' /\ cb_temp' < 26000
             /\ ramp_counter' = ramp_counter
             /\ ramp_direction' = ramp_direction

\* in NOISY mode every offset can be drawn, whatever the ramp state is
C24_AnyOffset ==
    (cb_pc = "generate" /\ mode = "noisy") =>
       \A random_val \in RandomVals :
          ENABLED (Generate /\ cb_temp' = NoisyTemp(random_val))

\* the temperature generated is the one stamped and pushed
C24_Pushed ==
    (cb_pc = "push" /\ cb_pc' = "wake") =>
       Slot(buffer', buffer.head).temp_mC = cb_temp

\* C24: nxp_simtemp_generate_temp returns exactly 25000 in NORMAL mode and
\* a value of 24000 .. 25999 in NOISY mode, every offset being possible in
\* every ramp state; in neither mode does it write ramp_counter or
\* ramp_direction; the sample pushed carries the generated temperature.
C24_NormalAndNoisy ==
    /\ [][C24_Step /\ C24_Pushed]_vars
    /\ []C24_AnyOffset

\* after a ramp episode that went downwards, a NOISY cycle has drawn the
\* largest offset
C24_Witness ==
    /\ mode = "noisy" /\ cb_pc = "compare_new"
    /\ cb_temp = 25999
    /\ ramp_counter > 0 /\ ramp_direction = -1

\* a cycle of the ramp as documented: the counter goes up by one, on
\* reaching K the direction flips and the counter goes back to 0, and the
\* temperature is base + counter x direction x 200 as a signed value
C25_Step ==
    RampStoreStep =>
       /\ IF ramp_counter + 1 >= RAMP_PERIOD
          THEN ramp_direction' = 0 - ramp_direction /\ ramp_counter' = 0
          ELSE ramp_direction' = ramp_direction
               /\ ramp_counter' = ramp_counter + 1
       /\ cb_temp' = 25000 + ramp_counter' * ramp_direction' * 200

\* C25: in RAMP mode each cycle increments the counter, flips the direction
\* every 10 cycles with the counter back at 0, and returns base + counter x
\* direction x 200 as a signed value.
C25_RampEveryTen ==
    [][C25_Step]_vars

\* what the ramp does: the flip comes with the cycle that finds the counter
\* at 10, that is every 11 cycles
C25_RampOnEleventh ==
    [][RampStoreStep =>
          /\ IF ramp_counter + 1 > RAMP_PERIOD
             THEN ramp_direction' = 0 - ramp_direction /\ ramp_counter' = 0
             ELSE ramp_direction' = ramp_direction
                  /\ ramp_counter' = ramp_counter + 1
          /\ cb_temp' = 25000 + ramp_counter' * ramp_direction' * 200]_vars

\* samples after which the ramp has gone through all its values in both
\* directions, one sample of a cycle in progress at the switch included
SweepSamples == 2 * (RAMP_PERIOD + 1) + 1

\* C26: after a switch from NORMAL into RAMP, whatever the threshold is,
\* the direction chosen points from the base temperature to the threshold
\* and one of the samples of the first sweep of the ramp carries
\* THRESHOLD_CROSSED.
C26_CrossingBounded ==
    /\ (ramp_at.at >= 0 /\ update_count = 0 /\ threshold_mC # BASE_TEMP_MC) =>
          (ramp_direction = 1 <=> threshold_mC > BASE_TEMP_MC)
    /\ (ramp_at.at >= 0 /\ Len(SinceSwitch) >= SweepSamples)
          => CrossedWithin(SweepSamples)

\* the step in which the timer callback pushes its sample
PushStep == cb_pc = "push" /\ cb_pc' = "wake"

C27_Step ==
    /\ PushStep =>
          /\ Slot(buffer', buffer.head) = cb_sample
          /\ alert_count' =
                alert_count + (IF ThresholdCrossed(cb_sample) THEN 1 ELSE 0)
    /\ alert_count' # alert_count =>
          (PushStep /\ ThresholdCrossed(cb_sample)
              /\ alert_count' = alert_count + 1)

\* C27: alert_count goes up by exactly one in the push of a sample that
\* carries THRESHOLD_CROSSED and is written by no other step; between
\* cycles it equals the number of flagged samples pushed so far, whether
\* they are still in the ring or were overwritten or consumed.
C27_AlertCount ==
    /\ [][C27_Step]_vars
    /\ [](cb_pc = "idle" => alert_count = cyc_log.flagged)

\* two alerts counted and a third sample without one, after the first
\* flagged sample was consumed and with the ring holding fewer flagged
\* samples than were counted
C27_Witness ==
    /\ cb_pc = "idle" /\ update_count = 3
    /\ alert_count = 2 /\ cyc_log.flagged = 2
    /\ Len(delivered) >= 1
    /\ Cardinality({i \in 1..buffer.count :
                       ThresholdCrossed(Slot(buffer,
                          (buffer.tail + i - 1) % SIMTEMP_BUFFER_SIZE))}) < 2

\* every cycle runs nxp_simtemp_generate_temp once: the callback enters it
\* from the timer's expiry only and leaves it through its one exit
C28_OncePerCycle ==
    /\ (cb_pc = "idle" /\ cb_pc' # "idle") => cb_pc' = "generate"
    /\ (cb_pc # "generate" /\ cb_pc' = "generate") => cb_pc = "idle"
    /\ (InGenerate /\ ~InGenerate') => GenerateReturns

C28_Step ==
    /\ GenerateReturns => update_count' = update_count + 1
    /\ update_count' # update_count => GenerateReturns
    /\ update_count' >= update_count
    /\ alert_count' >= alert_count

\* C28: in NORMAL, NOISY and RAMP mode alike a producer cycle adds exactly
\* one to update_count, in its one pass through nxp_simtemp_generate_temp;
\* no step of any operation lowers update_count or alert_count.
C28_CountsUp ==
    [][C28_OncePerCycle /\ C28_Step]_vars

\* the third cycle has been counted in RAMP mode after cycles in other
\* modes, with an alert counted on the way and stats_show half-way through
C28_Witness ==
    /\ update_count = 3 /\ mode = "ramp" /\ ramp_counter = 1
    /\ cb_pc = "compare_new"
    /\ alert_count >= 1
    /\ ss_pc # "idle"

\* a step of the producer: the timer's expiry or a step of its callback
ProducerMoved == cb_pc' # cb_pc

\* while a writer holds config_mutex, an armed timer can expire and every
\* step of the callback can be taken
C29_NotDelayed ==
    config_mutex # "free" =>
       /\ (cb_pc = "idle" /\ timer_state = "enqueued"
              /\ update_count < MaxHeldCycles) => ENABLED Fire(MaxHeldCycles)
       /\ cb_pc = "generate" => ENABLED Generate
       /\ cb_pc = "compare_new" => ENABLED CompareNew
       /\ cb_pc = "compare_last" => ENABLED CompareLast
       /\ cb_pc = "push" => ENABLED Push
       /\ cb_pc = "wake" => ENABLED Wake
       /\ cb_pc = "forward" => ENABLED Forward

\* C29: no step of a producer cycle takes or releases config_mutex, every
\* step of a cycle can be taken while a writer holds config_mutex, and a
\* cycle that has started runs to its end even if the writer never
\* releases the mutex.
C29_NoConfigMutex ==
    /\ [][ProducerMoved => config_mutex' = config_mutex]_vars
    /\ []C29_NotDelayed
    /\ (cb_pc # "idle") ~> (cb_pc = "idle")

\* the second cycle is pushing its sample while one writer holds
\* config_mutex and the other waits for it
C29_Witness ==
    /\ cb_pc = "push" /\ update_count = 2
    /\ config_mutex = "w1" /\ st_pc["w2"] = "lock"

\* reader q can run nxp_simtemp_get_sample now, and takes a sample if the
\* ring holds one
CanPop(q) ==
    /\ rd_pc[q] = "idle" =>
          ENABLED (ReadCall(q) /\ rd_pc'[q] # "idle"
                      /\ (buffer.count > 0 => buffer'.count = buffer.count - 1))
    /\ rd_pc[q] = "wait_cond" =>
          ENABLED (WaitCond(q)
                      /\ (buffer.count > 0 => buffer'.count = buffer.count - 1))
    /\ rd_pc[q] = "check" =>
          ENABLED (Check(q)
                      /\ (buffer.count > 0 => buffer'.count = buffer.count - 1))

\* the producer can take both of its critical sections now
CanPush ==
    /\ cb_pc = "generate" => ENABLED Generate
    /\ cb_pc = "compare_last" => ENABLED CompareLast
    /\ cb_pc = "push" =>
          ENABLED (Push /\ Slot(buffer', buffer.head) = cb_sample)

\* C30: while a reader sleeps in nxp_simtemp_read, the producer can take
\* the stats_lock and buffer.lock sections of its cycle and push its
\* sample, and every other reader can run nxp_simtemp_get_sample and take
\* a sample that is in the ring.
C30_SleeperHoldsNoLock ==
    \A r \in Readers :
       Asleep(r) => (CanPush /\ \A q \in Readers \ {r} : CanPop(q))

\* while r1 sleeps, the producer has pushed a sample and r2 has taken it
C30_Witness ==
    /\ Asleep("r1") /\ cb_pc = "wake"
    /\ rd_pc["r2"] = "copy" /\ buffer.count = 0
    /\ rd_sample["r2"] = cb_sample

\* writer w is between the mutex_lock and the mutex_unlock of a store
InSection(w) ==
    st_pc[w] \in {"cancel", "start", "unlock", "t_unlock", "m_counter",
                  "m_direction", "m_write", "m_unlock"}

\* the last call of writer w was a sampling_ms_store that has returned count
StoredSampling(w) ==
    /\ st_pc[w] = "idle"
    /\ st_buf[w] \in SerialSampling
    /\ st_ret[w] = Len(st_buf[w])

\* the configuration written by the store of value ms is in force whole
InForce(ms) ==
    /\ sampling_ms = ms
    /\ period = PeriodOf(ms)
    /\ timer_state = "enqueued" => timer_interval = PeriodOf(ms)
    /\ cb_pc = "idle" => timer_state = "enqueued"

\* C31: at most one store is between its mutex_lock and its mutex_unlock,
\* and it is the owner of config_mutex; once two concurrent
\* sampling_ms_store calls have both returned, sampling_ms, period and the
\* interval of the armed timer are those of one and the same of the two.
C31_Serialised ==
    /\ \A w \in Writers : InSection(w) <=> config_mutex = w
    /\ Cardinality({w \in Writers : InSection(w)}) <= 1
    /\ (\A w \in Writers : StoredSampling(w)) =>
          \E w \in Writers : InForce(st_val[w])

\* both callers have stored, one 1 ms and the other 50 ms, and the 50 ms
\* are in force after a producer cycle
C31_Witness ==
    /\ \A w \in Writers : StoredSampling(w)
    /\ st_val["w1"] = 1 /\ st_val["w2"] = 50
    /\ InForce(50)
    /\ update_count = 1

\* a RAMP cycle as the documentation describes it: steps of 100 mC, the
\* direction reversed with every 20th sample
C32_Step ==
    RampStoreStep =>
       /\ (ramp_direction' # ramp_direction) <=> (ramp_counter + 1 >= 20)
       /\ cb_temp' = 25000 + ramp_counter' * ramp_direction' * 100

\* C32: in RAMP mode the temperature moves in steps of 100 mC and the
\* direction changes every 20 samples, as DESIGN.md and the comment of
\* nxp_simtemp_generate_temp say.
C32_RampAsDocumented ==
    [][C32_Step]_vars

\* C33: outside the buffer.lock sections the ring of N slots has
\* 0 <= count <= N, head < N, tail < N and head = (tail + count) mod N,
\* whatever pushes, pops and polls have run.
C33_RingShape ==
    LET n == SIMTEMP_BUFFER_SIZE
    IN  /\ 0 <= buffer.count /\ buffer.count <= n
        /\ 0 <= buffer.head /\ buffer.head < n
        /\ 0 <= buffer.tail /\ buffer.tail < n
        /\ buffer.head = (buffer.tail + buffer.count) % n

\* the ring has overflowed and wrapped, a consumer has popped since, and
\* the poller has seen data: head is behind tail
C33_Witness ==
    /\ lost # {} /\ Len(delivered) >= 1
    /\ buffer.count = SIMTEMP_BUFFER_SIZE - 1 /\ buffer.head < buffer.tail
    /\ poll_ret.mask # 0

\* C34: every sample a pop has removed from the ring is handed to a caller:
\* it is in the record of a read that returned sizeof(sample), or held by a
\* reader between its pop and its return, and no read returns an error
\* after a pop.
C34_PoppedIsDelivered ==
    /\ Range(delivered) \subseteq (Range(received) \cup InFlight)
    /\ [][\A r \in Readers :
             (rd_pc[r] = "copy" /\ rd_pc'[r] = "idle") => rd_ret'[r] > 0]_vars

\* the first RAMP sample after a completed switch into RAMP is one step
\* away from the base, in the direction the switch chose
C35_Step ==
    (RampStoreStep /\ ramp_at.first) =>
       cb_temp' = BASE_TEMP_MC + ramp_at.dir * RAMP_STEP

\* between a completed switch into RAMP and the first RAMP sample after
\* it, the ramp is as the switch left it
C35_Kept ==
    (ramp_at.first /\ mode = "ramp") =>
       (ramp_counter = 0 /\ ramp_direction = ramp_at.dir)

\* C35: whatever the interleaving of the producer with mode_store, the
\* first sample generated in RAMP mode after a completed switch into RAMP
\* is base + d x 200, d being the direction the switch chose, and no
\* producer cycle changes ramp_counter or ramp_direction between the
\* switch and that sample.
C35_FirstRampSample ==
    /\ [][C35_Step]_vars
    /\ []C35_Kept

\* the ramp as a switch into RAMP would leave it on the threshold in force
AimedAtThreshold ==
    /\ ramp_counter = 0
    /\ ramp_direction = (IF threshold_mC < BASE_TEMP_MC THEN -1 ELSE 1)

\* the first sample of a device started in RAMP mode lies on the side of
\* the threshold
C36_Step ==
    (RampStoreStep /\ update_count = 0 /\ NoWriteYet) =>
       /\ threshold_mC < BASE_TEMP_MC => cb_temp' < BASE_TEMP_MC
       /\ threshold_mC > BASE_TEMP_MC => cb_temp' > BASE_TEMP_MC

\* C36: a device whose startup configuration selects mode = ramp starts
\* with the ramp initialised as by a switch into RAMP (counter 0, direction
\* -1 if the startup threshold is below 25000, else +1), so that its first
\* ramp sample moves toward the threshold without any mode_store.
C36_StartupRampAimed ==
    /\ [](( mode = "ramp" /\ update_count = 0 /\ cb_pc = "idle"
             /\ NoWriteYet) => AimedAtThreshold)
    /\ [][C36_Step]_vars

\* the step in which add_sample completes its crossing test
CompareLastStep == cb_pc = "compare_last" /\ cb_pc' = "push"

\* C37: at constant temperature (mode NORMAL, previous temperature 25000)
\* no sample gets THRESHOLD_CROSSED and alert_count stays as it is,
\* whenever threshold_mC_store writes, also between the two reads of
\* threshold_mC of one crossing test.
C37_NoAlertAtConstantTemp ==
    /\ [][(CompareLastStep /\ mode = "normal" /\ cb_temp = BASE_TEMP_MC
              /\ last_temp_mC = BASE_TEMP_MC)
             => ~ThresholdCrossed(cb_sample')]_vars
    /\ [](mode = "normal" => alert_count = 0)

\* whoever holds a lock can take a step, or waits for a context that can:
\* stats_show inside stats_lock waits for no one; the callback waits at
\* most for stats_lock; the owner of config_mutex waits at most, inside
\* hrtimer_cancel, for the callback; poll finds buffer.lock free
C38_NoCycle ==
    /\ ss_pc # "idle" =>
          \/ ENABLED StatsStep
          \/ ss_pc = "lock" /\ GenerateHoldsLock
    /\ cb_pc # "idle" =>
          \/ ENABLED Callback
          \/ cb_pc = "generate" /\ ~StatsLockFree
    /\ \A w \in Writers :
          config_mutex = w =>
             \/ ENABLED InsideStore(w)
             \/ st_pc[w] = "cancel" /\ cb_pc # "idle"
    /\ \A w \in Writers :
          st_pc[w] \in {"lock", "m_lock"} =>
             \/ ENABLED InsideStore(w)
             \/ config_mutex \in Writers \ {w}
    /\ ENABLED Poll

\* C38: no context that holds a lock waits for a context that waits for
\* it, and every operation that has started comes to its end: a store,
\* also one that waits in hrtimer_cancel with config_mutex held, a
\* stats_show call and a timer callback.
C38_DeadlockFree ==
    /\ []C38_NoCycle
    /\ \A w \in Writers : (st_pc[w] # "idle") ~> (st_pc[w] = "idle")
    /\ (ss_pc # "idle") ~> (ss_pc = "idle")
    /\ (cb_pc # "idle") ~> (cb_pc = "idle")

\* sampling_ms_store holds config_mutex and waits in hrtimer_cancel for the
\* callback, which waits for stats_lock held by stats_show; mode_store
\* waits for the mutex
C38_Witness ==
    /\ config_mutex = "w1" /\ st_pc["w1"] = "cancel"
    /\ st_pc["w2"] = "m_lock"
    /\ cb_pc = "generate" /\ ~StatsLockFree

\* the samples nxp_simtemp_add_sample has pushed so far, wherever they are
\* now: still in the ring, popped by a read, or overwritten
SamplesPushed == buffer.count + Len(delivered) + Cardinality(lost)

\* the callback is between nxp_simtemp_generate_temp and its push
GeneratedNotPushed == cb_pc \in {"compare_new", "compare_last", "push"}

\* C39: in every reachable state alert_count <= update_count, and
\* update_count is the number of samples pushed so far, plus one exactly
\* while a cycle has generated its temperature and not yet pushed it.
C39_CountersOrdered ==
    /\ alert_count <= update_count
    /\ alert_count <= SamplesPushed
    /\ update_count - SamplesPushed \in {0, 1}
    /\ update_count = SamplesPushed + 1 <=> GeneratedNotPushed

\* the third cycle is generated and not pushed; of the two samples pushed
\* one was flagged and counted, and one has been read
C39_Witness ==
    /\ cb_pc = "push"
    /\ update_count = 3 /\ SamplesPushed = 2
    /\ alert_count >= 1
    /\ Len(delivered) >= 1

\* stats_show: the text sprintf writes from the four values read
stats_show ==
    <<"u", "p", "d", "a", "t", "e", "s", "=">> \o FormatU(ss_val.updates)
    \o <<" ", "a", "l", "e", "r", "t", "s", "=">> \o FormatU(ss_val.alerts)
    \o <<" ", "e", "r", "r", "o", "r", "s", "=">> \o FormatU(ss_val.errors)
    \o <<" ", "l", "a", "s", "t", "_", "e", "r", "r", "o", "r", "=">>
    \o FormatD(ss_val.last_error) \o <<"\n">>

\* what the stats text ends with while no error has been recorded
NoErrorsText ==
    <<" ", "e", "r", "r", "o", "r", "s", "=", "0", " ", "l", "a", "s", "t",
      "_", "e", "r", "r", "o", "r", "=", "0", "\n">>

EndsWith(text, tail) ==
    /\ Len(text) >= Len(tail)
    /\ SubSeq(text, Len(text) - Len(tail) + 1, Len(text)) = tail

\* C40: no step of any operation writes error_count or last_error; they
\* stay 0 through producer cycles, reads, polls and accepted or rejected
\* configuration writes, and every completed stats_show call reports
\* errors=0 last_error=0.
C40_ErrorsUntouched ==
    /\ [][error_count' = error_count /\ last_error' = last_error]_vars
    /\ [](error_count = 0 /\ last_error = 0)
    /\ []((ss_pc = "idle" /\ ss_val.inst # <<>>) =>
             EndsWith(stats_show, NoErrorsText))

\* stats_show has returned after a producer cycle, a read that failed with
\* -EFAULT, a rejected write and an accepted switch to RAMP mode
C40_Witness ==
    /\ ss_pc = "idle" /\ ss_val.inst # <<>>
    /\ ss_val.updates = 1
    /\ rd_ret["r1"] = -EFAULT
    /\ st_ret["w1"] = -EINVAL
    /\ mode = "ramp"
    /\ poll_ret.mask = POLLIN + POLLRDNORM

====
